---- MODULE Spec2Model ----
(***************************************************************************)
(* Emotion routing and playback subsystem of Jarvis/Nestor:                *)
(*   videos/emotion_router.py  EmotionRouter (keyword scorer + cooldown)   *)
(*   videos/nestor_player.py   EmotionPlayer (idle loop / play-once FSM)   *)
(* Floats are modelled as integers (weights, scores, seconds).  Strings    *)
(* are sequences of characters; a character is a short string naming a     *)
(* code point: "a^" is the precomposed a-acute, "A^" its capital, "^" the  *)
(* combining acute accent (category Mn).                                   *)
(***************************************************************************)
EXTENDS Integers, Sequences, FiniteSets, TLC

VARIABLES
    \* ---- EmotionRouter ----
    min_score,          \* self.min_score
    cooldown,           \* self.cooldown
    fallback,           \* self.fallback
    last_trigger_ts,    \* self.last_trigger_ts
    clock,              \* time.time()
    rpc,                \* position of each caller of analyze
    rtext,              \* analyze: text
    rnow,               \* analyze: now
    rseen,              \* analyze: last_trigger_ts as read by the cooldown gate
    rbest,              \* analyze: (best_emo, best_score)
    rret,               \* analyze: returned (emotion, score)
    rstored,            \* analyze: this call wrote last_trigger_ts
    \* ---- EmotionPlayer ----
    current_mode,       \* self.current_mode
    lock_owner,         \* self.lock (RLock): owning thread
    playing,            \* media handed to self.player by the last play()
    ended,              \* the current playback reached its end
    pending_ends,       \* MediaPlayerEndReached events not yet dispatched
    ppc,                \* position of each caller of trigger_emotion
    parg,               \* trigger_emotion: name
    pcmds,              \* play commands issued by the caller's current call
    cbpc,               \* position of the VLC event thread in _on_media_end
    cb_from,            \* current_mode found by _on_media_end
    cb_cmds,            \* play commands issued by the current _on_media_end
    triggers,           \* trigger_emotion calls started so far
    requested,          \* names passed to trigger_emotion so far
    warned,             \* clips reported missing by _play_media
    \* ---- EmotionPlayer.__init__ ----
    config,             \* the JSON object read by _load_config
    existing,           \* the clip files present on disk
    media_map,          \* self.media_map
    phase,              \* how far the construction has come
    \* ---- NestorCore.chat / NestorMaster.handle_text ----
    chat,               \* the turn of each session
    turns,              \* turns started so far
    \* ---- EmotionPlayer.run, NestorMaster.run ----
    stdin,              \* the lines not yet read from standard input
    command_q,          \* self.command_q
    stop_flag,          \* self.stop_flag
    run_pc,             \* position of EmotionPlayer.run
    run_cmd,            \* run: cmd
    stop_cmds,          \* player.stop() commands issued
    master_pc,          \* position of NestorMaster.run
    \* ---- the CLI loop of app_cli.py and run_once of session.py ----
    history,            \* state.history (SessionState)
    jsonl,              \* the lines appended to the session file out_path
    cli,                \* position and locals of main / run_once
    \* ---- pure functions applied to drawn inputs ----
    pure

routerVars == <<min_score, cooldown, fallback, last_trigger_ts, clock, rpc,
                rtext, rnow, rseen, rbest, rret, rstored>>
playerVars == <<current_mode, lock_owner, playing, ended, pending_ends, ppc,
                parg, pcmds, cbpc, cb_from, cb_cmds, triggers, requested,
                warned>>
loadVars == <<config, existing, media_map, phase>>
chatVars == <<chat, turns>>
runVars == <<stdin, command_q, stop_flag, run_pc, run_cmd, stop_cmds, master_pc>>
cliVars == <<history, jsonl, cli>>
vars == <<routerVars, playerVars, pure, loadVars, chatVars, runVars, cliVars>>

(***************************************************************************)
(* Bounds of the model                                                     *)
(***************************************************************************)
MaxLen == 4          \* longest text drawn for the scorer
MaxEmotions == 3     \* largest score map drawn for _pick_best
MaxScore == 2        \* largest score drawn for _pick_best
MaxPriority == 2     \* largest priority drawn for _pick_best
StartTime == 3       \* time.time() at construction (far beyond any cooldown)
MaxTime == 5         \* the clock stops advancing here
MaxTriggers == 3     \* trigger_emotion calls per behaviour

None == "None"

(***************************************************************************)
(* Text: str.lower, unicodedata.normalize('NFD'), category Mn, str.split,  *)
(* the `in` operator on lists and on strings                               *)
(***************************************************************************)
TextChars == {"a", "b", "A", "a^", " "}

RECURSIVE SeqsUpTo(_, _)
SeqsUpTo(S, n) ==
    IF n = 0 THEN {<<>>}
    ELSE LET shorter == SeqsUpTo(S, n - 1)
         IN  shorter \cup {Append(s, c) : s \in shorter, c \in S}

Texts == SeqsUpTo(TextChars, MaxLen)

lower_char(c) ==
    CASE c = "A"  -> "a"
      [] c = "B"  -> "b"
      [] c = "A^" -> "a^"
      [] OTHER    -> c

lower(s) == [i \in 1..Len(s) |-> lower_char(s[i])]

nfd_char(c) ==
    CASE c = "a^" -> <<"a", "^">>
      [] c = "A^" -> <<"A", "^">>
      [] OTHER    -> <<c>>

category_Mn(c) == c = "^"

RECURSIVE nfd(_)
nfd(s) == IF s = <<>> THEN <<>> ELSE nfd_char(Head(s)) \o nfd(Tail(s))

strip_accents(s) == SelectSeq(nfd(s), LAMBDA c : ~category_Mn(c))

isspace(c) == c = " "

RECURSIVE split_from(_, _, _)
split_from(s, i, cur) ==
    IF i > Len(s) THEN (IF cur = <<>> THEN <<>> ELSE <<cur>>)
    ELSE IF isspace(s[i])
         THEN (IF cur = <<>> THEN split_from(s, i + 1, <<>>)
               ELSE <<cur>> \o split_from(s, i + 1, <<>>))
         ELSE split_from(s, i + 1, Append(cur, s[i]))

split(s) == split_from(s, 1, <<>>)

in_list(x, l) == \E i \in 1..Len(l) : l[i] = x

in_str(x, s) ==
    \E i \in 0..(Len(s) - Len(x)) : SubSeq(s, i + 1, i + Len(x)) = x

(***************************************************************************)
(* Configuration: cfg["routing"]["emotions"], in declaration order (a      *)
(* Python dict iterates in insertion order, json.load keeps file order).   *)
(* keywords and phrases are the items of the dicts, in declaration order.  *)
(***************************************************************************)
routing ==
    << [name |-> "idle", priority |-> 0, keywords |-> <<>>, phrases |-> <<>>],
       [name |-> "joie", priority |-> 1,
        keywords |-> << [k |-> <<"a", "b">>, w |-> 2],
                        [k |-> <<"A^">>, w |-> 1] >>,
        phrases  |-> << [k |-> <<"b", " ", "a">>, w |-> 3] >>],
       [name |-> "tristesse", priority |-> 1,
        keywords |-> << [k |-> <<"a">>, w |-> 1],
                        [k |-> <<"b", " ", "b">>, w |-> 2] >>,
        phrases  |-> << [k |-> <<"B", "a^">>, w |-> 2] >>] >>

tie_breaker == "priority"   \* strategy.get("tie_breaker", "priority")

(***************************************************************************)
(* EmotionRouter.analyze, lines 34-47: the score of every emotion          *)
(***************************************************************************)
\* a keyword matched anywhere in the text, as phrases are
keyword_hit_substring(kw, t) == in_str(strip_accents(lower(kw)), t)

\* line 42
keyword_hit(kw, t) == in_list(strip_accents(lower(kw)), split(t))

\* line 45
phrase_hit(ph, t) == in_str(strip_accents(lower(ph)), t)

RECURSIVE sum_keywords(_, _)
sum_keywords(items, t) ==
    IF items = <<>> THEN 0
    ELSE (IF keyword_hit(Head(items).k, t) THEN Head(items).w ELSE 0)
         + sum_keywords(Tail(items), t)

RECURSIVE sum_phrases(_, _)
sum_phrases(items, t) ==
    IF items = <<>> THEN 0
    ELSE (IF phrase_hit(Head(items).k, t) THEN Head(items).w ELSE 0)
         + sum_phrases(Tail(items), t)

normalize(text) == strip_accents(lower(text))

\* scores, as the items of the dict in insertion order, with self.priority
scores_of(text) ==
    LET t == normalize(text)
    IN  [i \in 1..Len(routing) |->
            [name     |-> routing[i].name,
             s        |-> sum_keywords(routing[i].keywords, t)
                          + sum_phrases(routing[i].phrases, t),
             priority |-> routing[i].priority]]

(***************************************************************************)
(* EmotionRouter._pick_best                                                *)
(***************************************************************************)
priority_of(entries, emo) ==
    IF \E i \in 1..Len(entries) : entries[i].name = emo
    THEN entries[CHOOSE i \in 1..Len(entries) : entries[i].name = emo].priority
    ELSE 0

\* priorities consulted whatever the tie breaker is
takes_over_whatever_tie_breaker(entries, tb, emo, s, best_emo, best_score) ==
    \/ s > best_score
    \/ /\ s = best_score
       /\ s > 0
       /\ priority_of(entries, emo) > priority_of(entries, best_emo)

\* the tie-break letting an equal priority take over
takes_over_on_equal(entries, tb, emo, s, best_emo, best_score) ==
    \/ s > best_score
    \/ /\ s = best_score
       /\ s > 0
       /\ tb = "priority"
       /\ priority_of(entries, emo) >= priority_of(entries, best_emo)

\* lines 60-65
takes_over(entries, tb, emo, s, best_emo, best_score) ==
    \/ s > best_score
    \/ /\ s = best_score
       /\ s > 0
       /\ tb = "priority"
       /\ priority_of(entries, emo) > priority_of(entries, best_emo)

RECURSIVE pick_loop(_, _, _, _, _)
pick_loop(entries, tb, i, best_emo, best_score) ==
    IF i > Len(entries) THEN [emo |-> best_emo, score |-> best_score]
    ELSE IF takes_over(entries, tb, entries[i].name, entries[i].s,
                       best_emo, best_score)
         THEN pick_loop(entries, tb, i + 1, entries[i].name, entries[i].s)
         ELSE pick_loop(entries, tb, i + 1, best_emo, best_score)

pick_best(entries, tb, fb) ==
    LET r == pick_loop(entries, tb, 1, None, -1)
    IN  [emo |-> IF r.emo = None THEN fb ELSE r.emo, score |-> r.score]

(***************************************************************************)
(* EmotionRouter: construction and analyze, one step per shared access     *)
(***************************************************************************)
RThreads == {"r1", "r2"}

MinScores == {0, 1, 2}            \* strategy["min_score_to_trigger"]
Cooldowns == {0, 2}               \* strategy["cooldown_seconds"]
Fallbacks == {"idle", "calme"}    \* strategy["fallback"]

CallTexts == { <<>>, <<"a">>, <<"A", "b">> }

NoResult == [emo |-> None, score |-> 0]

RouterIdle ==
    /\ last_trigger_ts = 0
    /\ clock = StartTime
    /\ rpc = [r \in RThreads |-> "idle"]
    /\ rtext = [r \in RThreads |-> <<>>]
    /\ rnow = [r \in RThreads |-> 0]
    /\ rseen = [r \in RThreads |-> 0]
    /\ rbest = [r \in RThreads |-> NoResult]
    /\ rret = [r \in RThreads |-> NoResult]
    /\ rstored = [r \in RThreads |-> FALSE]

\* EmotionRouter.__init__ with the strategy defaults
RouterDefault ==
    /\ min_score = 1
    /\ cooldown = 2
    /\ fallback = "idle"
    /\ RouterIdle

\* EmotionRouter.__init__ over the strategies drawn
RouterInit ==
    /\ min_score \in MinScores
    /\ cooldown \in Cooldowns
    /\ fallback \in Fallbacks
    /\ RouterIdle

Tick ==
    /\ clock < MaxTime
    /\ clock' = clock + 1
    /\ UNCHANGED <<min_score, cooldown, fallback, last_trigger_ts, rpc, rtext,
                   rnow, rseen, rbest, rret, rstored>>
    /\ UNCHANGED <<playerVars, pure, loadVars, chatVars, runVars, cliVars>>

\* the gate with its comparison off by one
cooldown_active_inclusive(now, ts, cd) == now - ts <= cd

\* the gate closing one second early
cooldown_active_short(now, ts, cd) == now - ts < cd - 1

\* line 31
cooldown_active(now, ts, cd) == now - ts < cd

\* any positive score triggers
above_threshold_positive(score, ms) == score > 0

\* line 51
above_threshold(score, ms) == score >= ms

\* line 29: analyze(text) is entered by r
analyze_enter(r, text) ==
    /\ rpc[r] = "idle"
    /\ rpc' = [rpc EXCEPT ![r] = "a_now"]
    /\ rtext' = [rtext EXCEPT ![r] = text]
    /\ UNCHANGED <<min_score, cooldown, fallback, last_trigger_ts, clock,
                   rnow, rseen, rbest, rret, rstored>>

\* a caller enters analyze(text)
analyze_call(r, text) ==
    /\ analyze_enter(r, text)
    /\ UNCHANGED <<playerVars, pure, loadVars, chatVars, runVars, cliVars>>

\* line 30: now = time.time()
analyze_now(r) ==
    /\ rpc[r] = "a_now"
    /\ rnow' = [rnow EXCEPT ![r] = clock]
    /\ rpc' = [rpc EXCEPT ![r] = "a_gate"]
    /\ UNCHANGED <<min_score, cooldown, fallback, last_trigger_ts, clock,
                   rtext, rseen, rbest, rret, rstored>>
    /\ UNCHANGED <<playerVars, pure, loadVars, chatVars, runVars, cliVars>>

\* lines 31-32: the cooldown gate
analyze_gate(r) ==
    /\ rpc[r] = "a_gate"
    /\ rseen' = [rseen EXCEPT ![r] = last_trigger_ts]
    /\ IF cooldown_active(rnow[r], last_trigger_ts, cooldown)
       THEN /\ rret' = [rret EXCEPT ![r] = [emo |-> fallback, score |-> 0]]
            /\ rpc' = [rpc EXCEPT ![r] = "ret"]
       ELSE /\ rpc' = [rpc EXCEPT ![r] = "a_score"]
            /\ UNCHANGED rret
    /\ UNCHANGED <<min_score, cooldown, fallback, last_trigger_ts, clock,
                   rtext, rnow, rbest, rstored>>
    /\ UNCHANGED <<playerVars, pure, loadVars, chatVars, runVars, cliVars>>

\* lines 35-50: normalise, score, pick the best
analyze_score(r) ==
    /\ rpc[r] = "a_score"
    /\ rbest' = [rbest EXCEPT ![r] =
                    pick_best(scores_of(rtext[r]), tie_breaker, fallback)]
    /\ rpc' = [rpc EXCEPT ![r] = "a_thresh"]
    /\ UNCHANGED <<min_score, cooldown, fallback, last_trigger_ts, clock,
                   rtext, rnow, rseen, rret, rstored>>
    /\ UNCHANGED <<playerVars, pure, loadVars, chatVars, runVars, cliVars>>

\* lines 51-54: threshold, update of the cooldown timestamp, return
analyze_threshold(r) ==
    /\ rpc[r] = "a_thresh"
    /\ IF above_threshold(rbest[r].score, min_score)
       THEN /\ last_trigger_ts' = rnow[r]
            /\ rstored' = [rstored EXCEPT ![r] = TRUE]
            /\ rret' = [rret EXCEPT ![r] = rbest[r]]
       ELSE /\ rret' = [rret EXCEPT ![r] = [emo |-> fallback, score |-> 0]]
            /\ UNCHANGED <<last_trigger_ts, rstored>>
    /\ rpc' = [rpc EXCEPT ![r] = "ret"]
    /\ UNCHANGED <<min_score, cooldown, fallback, clock, rtext, rnow, rseen,
                   rbest>>
    /\ UNCHANGED <<playerVars, pure, loadVars, chatVars, runVars, cliVars>>

\* lines 32, 53, 54: analyze returns to the caller, its locals are gone
analyze_leave(r) ==
    /\ rpc[r] = "ret"
    /\ rpc' = [rpc EXCEPT ![r] = "idle"]
    /\ rtext' = [rtext EXCEPT ![r] = <<>>]
    /\ rnow' = [rnow EXCEPT ![r] = 0]
    /\ rseen' = [rseen EXCEPT ![r] = 0]
    /\ rbest' = [rbest EXCEPT ![r] = NoResult]
    /\ rret' = [rret EXCEPT ![r] = NoResult]
    /\ rstored' = [rstored EXCEPT ![r] = FALSE]
    /\ UNCHANGED <<min_score, cooldown, fallback, last_trigger_ts, clock>>

\* the caller has consumed the result
analyze_return(r) ==
    /\ analyze_leave(r)
    /\ UNCHANGED <<playerVars, pure, loadVars, chatVars, runVars, cliVars>>

(***************************************************************************)
(* EmotionPlayer: construction, trigger_emotion, _on_media_end, and the    *)
(* VLC media player it drives                                              *)
(***************************************************************************)
PThreads == {"h1", "h2", "h3"}
VlcThread == "vlc"
NoOne == "nobody"

idle_name == "idle"                          \* self.idle_name
MediaNames == {"idle", "joie", "tristesse"}  \* keys of self.media_map
TriggerNames == MediaNames \cup {"inconnu"}

\* EmotionPlayer.__init__: idle is playing, looped, when construction ends
PlayerInit ==
    /\ current_mode = "idle"
    /\ lock_owner = NoOne
    /\ playing = [clip |-> idle_name, loop |-> TRUE]
    /\ ended = FALSE
    /\ pending_ends = 0
    /\ ppc = [p \in PThreads |-> "idle"]
    /\ parg = [p \in PThreads |-> None]
    /\ pcmds = [p \in PThreads |-> 0]
    /\ cbpc = "idle"
    /\ cb_from = None
    /\ cb_cmds = 0
    /\ triggers = 0
    /\ requested = {}
    /\ warned = {}

\* a lock that excludes nobody
lock_available_unguarded(t) == TRUE

\* a lock kept by the caller until the clip it started has ended
lock_available_after_playback(t) ==
    /\ lock_owner = NoOne \/ lock_owner = t
    /\ playing.loop \/ ended

\* threading.RLock: free, or already held by the acquiring thread
lock_available(t) == lock_owner = NoOne \/ lock_owner = t

\* every clip played with input-repeat=-1
play_media_always_looped(name, loop) ==
    /\ warned' = warned
    /\ playing' = [clip |-> name, loop |-> TRUE]
    /\ ended' = FALSE

\* the clip named by the configuration played with the configured flag
play_media_as_configured(name, loop) ==
    /\ warned' = warned
    /\ playing' = [clip |-> name, loop |-> media_map[name].loop]
    /\ ended' = FALSE

\* a clip that is missing is reported and not played
play_media_only_existing(name, loop) ==
    IF media_map[name].file \in existing
    THEN /\ playing' = [clip |-> name, loop |-> loop]
         /\ ended' = FALSE
         /\ warned' = warned
    ELSE /\ warned' = warned \cup {name}
         /\ UNCHANGED <<playing, ended>>

\* _play_media, lines 124-139: a missing file is reported (lines 127-128),
\* then set_media + play() hand the clip to the player
play_media(name, loop) ==
    /\ warned' = IF media_map[name].file \in existing
                 THEN warned ELSE warned \cup {name}
    /\ playing' = [clip |-> name, loop |-> loop]
    /\ ended' = FALSE

\* _play_idle without the assignment of line 142
play_idle_mode_forgotten == UNCHANGED current_mode

\* _play_idle, line 142
play_idle_mode == current_mode' = idle_name

\* trigger_emotion without the assignment of line 156
set_mode_forgotten(name) == UNCHANGED current_mode

\* trigger_emotion, line 156
set_mode(name) == current_mode' = name

\* every name taken for a key of the media map
known_unchecked(name) == TRUE

\* trigger_emotion, line 149
known(name) == name \in DOMAIN media_map

\* line 147: trigger_emotion(name) is entered by p
trigger_enter(p, name) ==
    /\ phase = "ready"
    /\ ppc[p] = "idle"
    /\ triggers' = triggers + 1
    /\ requested' = requested \cup {name}
    /\ parg' = [parg EXCEPT ![p] = name]
    /\ pcmds' = [pcmds EXCEPT ![p] = 0]
    /\ ppc' = [ppc EXCEPT ![p] = "t_lock"]
    /\ UNCHANGED <<current_mode, lock_owner, playing, ended, pending_ends,
                   cbpc, cb_from, cb_cmds>>
    /\ UNCHANGED warned

\* a caller enters trigger_emotion(name)
trigger_call(p, name) ==
    /\ triggers < MaxTriggers
    /\ trigger_enter(p, name)
    /\ UNCHANGED <<routerVars, pure, loadVars, chatVars, runVars, cliVars>>

\* line 148: with self.lock
trigger_acquire(p) ==
    /\ ppc[p] = "t_lock"
    /\ lock_available(p)
    /\ lock_owner' = p
    /\ ppc' = [ppc EXCEPT ![p] = "t_check"]
    /\ UNCHANGED <<current_mode, playing, ended, pending_ends, parg, pcmds,
                   cbpc, cb_from, cb_cmds, triggers, requested>>
    /\ UNCHANGED warned
    /\ UNCHANGED <<routerVars, pure, loadVars, chatVars, runVars, cliVars>>

\* lines 149-155: unknown name, idle, or an emotion
trigger_check(p) ==
    /\ ppc[p] = "t_check"
    /\ ppc' = [ppc EXCEPT ![p] =
                  IF ~known(parg[p]) THEN "t_unlock"
                  ELSE IF parg[p] = idle_name THEN "t_idle_mode"
                  ELSE "t_setmode"]
    /\ UNCHANGED <<current_mode, lock_owner, playing, ended, pending_ends,
                   parg, pcmds, cbpc, cb_from, cb_cmds, triggers, requested>>
    /\ UNCHANGED warned
    /\ UNCHANGED <<routerVars, pure, loadVars, chatVars, runVars, cliVars>>

\* line 156: self.current_mode = name
trigger_setmode(p) ==
    /\ ppc[p] = "t_setmode"
    /\ set_mode(parg[p])
    /\ ppc' = [ppc EXCEPT ![p] = "t_play"]
    /\ UNCHANGED <<lock_owner, playing, ended, pending_ends, parg, pcmds,
                   cbpc, cb_from, cb_cmds, triggers, requested>>
    /\ UNCHANGED warned
    /\ UNCHANGED <<routerVars, pure, loadVars, chatVars, runVars, cliVars>>

\* line 158: self._play_media(name, loop=False); self.media_map[name]
\* raises KeyError for a name that is no key, which leaves the with block
trigger_play(p) ==
    /\ ppc[p] = "t_play"
    /\ IF parg[p] \in DOMAIN media_map
       THEN /\ play_media(parg[p], FALSE)
            /\ pcmds' = [pcmds EXCEPT ![p] = pcmds[p] + 1]
            /\ ppc' = [ppc EXCEPT ![p] = "t_unlock"]
            /\ UNCHANGED lock_owner
       ELSE /\ ppc' = [ppc EXCEPT ![p] = "raised"]
            /\ lock_owner' = NoOne
            /\ UNCHANGED <<playing, ended, pcmds, warned>>
    /\ UNCHANGED <<current_mode, pending_ends, parg, cbpc, cb_from, cb_cmds,
                   triggers, requested>>
    /\ UNCHANGED <<routerVars, pure, loadVars, chatVars, runVars, cliVars>>

\* lines 154, 142: _play_idle sets current_mode
trigger_idle_mode(p) ==
    /\ ppc[p] = "t_idle_mode"
    /\ play_idle_mode
    /\ ppc' = [ppc EXCEPT ![p] = "t_idle_play"]
    /\ UNCHANGED <<lock_owner, playing, ended, pending_ends, parg, pcmds,
                   cbpc, cb_from, cb_cmds, triggers, requested>>
    /\ UNCHANGED warned
    /\ UNCHANGED <<routerVars, pure, loadVars, chatVars, runVars, cliVars>>

\* line 145: self._play_media(self.idle_name, loop=True)
trigger_idle_play(p) ==
    /\ ppc[p] = "t_idle_play"
    /\ play_media(idle_name, TRUE)
    /\ pcmds' = [pcmds EXCEPT ![p] = pcmds[p] + 1]
    /\ ppc' = [ppc EXCEPT ![p] = "t_unlock"]
    /\ UNCHANGED <<current_mode, lock_owner, pending_ends, parg, cbpc,
                   cb_from, cb_cmds, triggers, requested>>
    /\ UNCHANGED <<routerVars, pure, loadVars, chatVars, runVars, cliVars>>

\* end of the with block: the lock is released and the call returns
trigger_release(p) ==
    /\ ppc[p] = "t_unlock"
    /\ lock_owner' = NoOne
    /\ ppc' = [ppc EXCEPT ![p] = "idle"]
    /\ parg' = [parg EXCEPT ![p] = None]
    /\ pcmds' = [pcmds EXCEPT ![p] = 0]
    /\ UNCHANGED <<current_mode, playing, ended, pending_ends, cbpc, cb_from,
                   cb_cmds, triggers, requested>>
    /\ UNCHANGED warned
    /\ UNCHANGED <<routerVars, pure, loadVars, chatVars, runVars, cliVars>>

\* the player reaches the end of a clip played once: MediaPlayerEndReached
vlc_end_reached ==
    /\ playing.clip # None
    /\ ~playing.loop
    /\ ~ended
    /\ ended' = TRUE
    /\ pending_ends' = pending_ends + 1
    /\ UNCHANGED <<current_mode, lock_owner, playing, ppc, parg, pcmds, cbpc,
                   cb_from, cb_cmds, triggers, requested>>
    /\ UNCHANGED warned
    /\ UNCHANGED <<routerVars, pure, loadVars, chatVars, runVars, cliVars>>

\* lines 100-104: the event manager calls _on_media_end on VLC's thread
on_media_end_call ==
    /\ cbpc = "idle"
    /\ pending_ends > 0
    /\ pending_ends' = pending_ends - 1
    /\ cb_cmds' = 0
    /\ cbpc' = "c_lock"
    /\ UNCHANGED <<current_mode, lock_owner, playing, ended, ppc, parg,
                   pcmds, cb_from, triggers, requested>>
    /\ UNCHANGED warned
    /\ UNCHANGED <<routerVars, pure, loadVars, chatVars, runVars, cliVars>>

\* line 106: with self.lock
on_media_end_acquire ==
    /\ cbpc = "c_lock"
    /\ lock_available(VlcThread)
    /\ lock_owner' = VlcThread
    /\ cbpc' = "c_check"
    /\ UNCHANGED <<current_mode, playing, ended, pending_ends, ppc, parg,
                   pcmds, cb_from, cb_cmds, triggers, requested>>
    /\ UNCHANGED warned
    /\ UNCHANGED <<routerVars, pure, loadVars, chatVars, runVars, cliVars>>

\* a notification that is not about the clip now playing is dropped
on_media_end_branch_stale_dropped ==
    IF ended \/ playing.loop THEN "c_idle_mode" ELSE "c_unlock"

\* lines 107-112: both branches of the test on current_mode call _play_idle
on_media_end_branch == "c_idle_mode"

\* lines 107-112: the test of current_mode
on_media_end_check ==
    /\ cbpc = "c_check"
    /\ cb_from' = current_mode
    /\ cbpc' = on_media_end_branch
    /\ UNCHANGED <<current_mode, lock_owner, playing, ended, pending_ends,
                   ppc, parg, pcmds, cb_cmds, triggers, requested>>
    /\ UNCHANGED warned
    /\ UNCHANGED <<routerVars, pure, loadVars, chatVars, runVars, cliVars>>

\* line 142
on_media_end_idle_mode ==
    /\ cbpc = "c_idle_mode"
    /\ play_idle_mode
    /\ cbpc' = "c_idle_play"
    /\ UNCHANGED <<lock_owner, playing, ended, pending_ends, ppc, parg,
                   pcmds, cb_from, cb_cmds, triggers, requested>>
    /\ UNCHANGED warned
    /\ UNCHANGED <<routerVars, pure, loadVars, chatVars, runVars, cliVars>>

\* line 145
on_media_end_idle_play ==
    /\ cbpc = "c_idle_play"
    /\ play_media(idle_name, TRUE)
    /\ cb_cmds' = cb_cmds + 1
    /\ cbpc' = "c_unlock"
    /\ UNCHANGED <<current_mode, lock_owner, pending_ends, ppc, parg, pcmds,
                   cb_from, triggers, requested>>
    /\ UNCHANGED <<routerVars, pure, loadVars, chatVars, runVars, cliVars>>

\* end of the with block
on_media_end_release ==
    /\ cbpc = "c_unlock"
    /\ lock_owner' = NoOne
    /\ cbpc' = "idle"
    /\ cb_from' = None
    /\ cb_cmds' = 0
    /\ UNCHANGED <<current_mode, playing, ended, pending_ends, ppc, parg,
                   pcmds, triggers, requested>>
    /\ UNCHANGED warned
    /\ UNCHANGED <<routerVars, pure, loadVars, chatVars, runVars, cliVars>>

(***************************************************************************)
(* EmotionPlayer.__init__: _validate_config, _resolve_media_paths, the VLC *)
(* set-up and _prepare_idle.  An entry of cfg["emotions"] is described by  *)
(* is_dict (it is a JSON object), has_file (it has the key "file") and its *)
(* "loop" flag; a clip file is named after its emotion.                    *)
(***************************************************************************)
NoMedia == [clip |-> None, loop |-> FALSE]

\* a dict without keys
EmptyMap == [n \in {} |-> None]

Entry(is_dict, has_file, loop) ==
    [is_dict |-> is_dict, has_file |-> has_file, loop |-> loop]

\* a configuration with the three clips, idle and joie flagged as given
ConfigWith(idle_loop, joie_loop) ==
    [has_emotions |-> TRUE,
     emotions |-> [n \in MediaNames |->
                     Entry(TRUE, TRUE,
                           CASE n = "idle" -> idle_loop
                             [] n = "joie" -> joie_loop
                             [] OTHER -> FALSE)]]

DefaultConfig == ConfigWith(TRUE, FALSE)

GoodConfigs == {ConfigWith(i, j) : i, j \in BOOLEAN}

\* no "emotions" object
NoEmotions == [has_emotions |-> FALSE, emotions |-> EmptyMap]

\* no "idle" entry
NoIdleEntry ==
    [has_emotions |-> TRUE,
     emotions |-> [n \in {"joie", "tristesse"} |-> Entry(TRUE, TRUE, FALSE)]]

\* the entry of joie has no "file" key
NoFileKey ==
    [has_emotions |-> TRUE,
     emotions |-> [n \in MediaNames |->
                     Entry(TRUE, n # "joie", FALSE)]]

\* the entry of tristesse is not an object
EntryNotObject ==
    [has_emotions |-> TRUE,
     emotions |-> [n \in MediaNames |->
                     Entry(n # "tristesse", n # "tristesse", FALSE)]]

BadConfigs == {NoEmotions, NoIdleEntry, NoFileKey, EntryNotObject}

\* the clip files on disk: all, all but joie's, none
Existings == {MediaNames, MediaNames \ {"joie"}, {}}

\* a validation that accepts every configuration
validate_config_anything(cfg) == TRUE

\* _validate_config, lines 73-83: TRUE when no ValueError is raised
validate_config(cfg) ==
    /\ cfg.has_emotions
    /\ "idle" \in DOMAIN cfg.emotions
    /\ \A n \in DOMAIN cfg.emotions :
          cfg.emotions[n].is_dict /\ cfg.emotions[n].has_file

\* _resolve_media_paths, lines 85-98
resolve_media_paths(emotions_obj) ==
    [n \in DOMAIN emotions_obj |->
        [file |-> n, loop |-> emotions_obj[n].loop]]

\* a player under construction: no attribute is set yet, nothing is played
Unbuilt ==
    /\ current_mode = None
    /\ lock_owner = NoOne
    /\ playing = NoMedia
    /\ ended = FALSE
    /\ pending_ends = 0
    /\ ppc = [p \in PThreads |-> "idle"]
    /\ parg = [p \in PThreads |-> None]
    /\ pcmds = [p \in PThreads |-> 0]
    /\ cbpc = "idle"
    /\ cb_from = None
    /\ cb_cmds = 0
    /\ triggers = 0
    /\ requested = {}
    /\ warned = {}
    /\ media_map = EmptyMap
    /\ phase = "validate"

\* the player built from the default configuration, every clip on disk
Loaded ==
    /\ config = DefaultConfig
    /\ existing = MediaNames
    /\ media_map = resolve_media_paths(DefaultConfig.emotions)
    /\ phase = "ready"

\* line 46: self._validate_config(self.config); a ValueError ends __init__
init_validate ==
    /\ phase = "validate"
    /\ phase' = IF validate_config(config) THEN "resolve" ELSE "failed"
    /\ UNCHANGED <<config, existing, media_map>>
    /\ UNCHANGED <<routerVars, playerVars, pure, chatVars, runVars, cliVars>>

\* line 49: self.media_map = self._resolve_media_paths(...); an entry that
\* is no object has no .get and raises AttributeError
init_resolve ==
    /\ phase = "resolve"
    /\ IF \A n \in DOMAIN config.emotions : config.emotions[n].is_dict
       THEN /\ media_map' = resolve_media_paths(config.emotions)
            /\ phase' = "vlc"
       ELSE /\ phase' = "failed"
            /\ UNCHANGED media_map
    /\ UNCHANGED <<config, existing>>
    /\ UNCHANGED <<routerVars, playerVars, pure, chatVars, runVars, cliVars>>

\* lines 53-64: the VLC instance and player, the control state, the event
init_vlc ==
    /\ phase = "vlc"
    /\ current_mode' = "idle"
    /\ phase' = "prepare"
    /\ UNCHANGED <<lock_owner, playing, ended, pending_ends, ppc, parg,
                   pcmds, cbpc, cb_from, cb_cmds, triggers, requested,
                   warned>>
    /\ UNCHANGED <<config, existing, media_map>>
    /\ UNCHANGED <<routerVars, pure, chatVars, runVars, cliVars>>

\* line 67, lines 114-118: _prepare_idle starts the idle clip
init_prepare_idle ==
    /\ phase = "prepare"
    /\ IF idle_name \in DOMAIN media_map
       THEN /\ play_idle_mode
            /\ play_media(idle_name, TRUE)
            /\ phase' = "ready"
       ELSE /\ phase' = "failed"
            /\ UNCHANGED <<current_mode, playing, ended, warned>>
    /\ UNCHANGED <<lock_owner, pending_ends, ppc, parg, pcmds, cbpc,
                   cb_from, cb_cmds, triggers, requested>>
    /\ UNCHANGED <<config, existing, media_map>>
    /\ UNCHANGED <<routerVars, pure, chatVars, runVars, cliVars>>

(***************************************************************************)
(* Pure functions applied to drawn inputs                                  *)
(***************************************************************************)
PureIdle == [op |-> "none"]

EntryNames == <<"e1", "e2", "e3", "e4", "e5">>

EntrySeqs ==
    UNION { [1..n -> [s : 0..MaxScore, priority : 0..MaxPriority]]
            : n \in 0..MaxEmotions }

\* the scores dict and self.priority for the names e1, e2, ... as declared
entries_of(draw) ==
    [i \in 1..Len(draw) |->
        [name |-> EntryNames[i], s |-> draw[i].s,
         priority |-> draw[i].priority]]

apply_pick_best ==
    /\ pure.op = "none"
    /\ \E draw \in EntrySeqs, tb \in {"priority", "first"} :
          pure' = [op |-> "pick_best", in |-> entries_of(draw), tb |-> tb,
                   out |-> pick_best(entries_of(draw), tb, "idle")]
    /\ UNCHANGED <<routerVars, playerVars, loadVars, chatVars, runVars, cliVars>>

apply_scores ==
    /\ pure.op = "none"
    /\ \E text \in Texts :
          pure' = [op |-> "scores", text |-> text, out |-> scores_of(text)]
    /\ UNCHANGED <<routerVars, playerVars, loadVars, chatVars, runVars, cliVars>>

(***************************************************************************)
(* The two network surfaces of NestorCore (master_nestor_http)             *)
(***************************************************************************)
\* the body of a request: a JSON object with some of the fields "emotion"
\* and "text", or a body that is not JSON
Payloads ==
    {[json |-> TRUE, obj |-> o] :
        o \in UNION {[ks -> {"", "joie"}] : ks \in SUBSET {"emotion", "text"}}}
    \cup {[json |-> FALSE, obj |-> EmptyMap]}

\* dict.get(key, default)
get(obj, key, default) == IF key \in DOMAIN obj THEN obj[key] ELSE default

\* Python truth of a field value: None and "" are false
truthy(v) == v # None /\ v # ""

\* NestorCore.trigger, lines 119-123: the calls it makes on the player
core_trigger(emotion) ==
    IF ~truthy(emotion) THEN <<>>
    ELSE <<[call |-> "trigger_emotion", arg |-> emotion]>>

\* the Flask routes, lines 173-201; get_json(force=True, silent=True) or {};
\* a handler's outcome is the answer it sent and the calls it made on the core
http_handler(verb, payload) ==
    LET data == IF payload.json THEN payload.obj ELSE EmptyMap
    IN  CASE verb = "trigger" ->
               IF ~truthy(get(data, "emotion", None))
               THEN [status |-> "error", calls |-> <<>>]
               ELSE [status |-> "ok", calls |-> <<[call |-> "trigger",
                                     arg |-> get(data, "emotion", None),
                                     does |-> core_trigger(
                                         get(data, "emotion", None))]>>]
          [] verb = "route" ->
               [status |-> "ok", calls |-> <<[call |-> "route_emotion",
                                arg |-> get(data, "text", ""),
                                does |-> <<>>]>>]
          [] verb = "say" ->
               [status |-> "ok", calls |-> <<[call |-> "say",
                                arg |-> get(data, "text", ""),
                                does |-> <<>>]>>]
          [] verb = "chat" ->
               [status |-> "ok", calls |-> <<[call |-> "chat",
                                arg |-> get(data, "text", ""),
                                does |-> <<>>]>>]

\* ws_handler, lines 206-237
ws_handler(verb, payload) ==
    IF ~payload.json THEN [status |-> "error", calls |-> <<>>]
    ELSE LET data == payload.obj
         IN  CASE verb = "trigger" ->
                    [status |-> "ok", calls |-> <<[call |-> "trigger",
                                     arg |-> get(data, "emotion", None),
                                     does |-> core_trigger(
                                         get(data, "emotion", None))]>>]
               [] verb = "route" ->
                    [status |-> "ok", calls |-> <<[call |-> "route_emotion",
                                     arg |-> get(data, "text", ""),
                                     does |-> <<>>]>>]
               [] verb = "say" ->
                    [status |-> "ok", calls |-> <<[call |-> "say",
                                     arg |-> get(data, "text", ""),
                                     does |-> <<>>]>>]
               [] verb = "chat" ->
                    [status |-> "ok", calls |-> <<[call |-> "chat",
                                     arg |-> get(data, "text", ""),
                                     does |-> <<>>]>>]

\* one request sent over both surfaces
apply_request ==
    /\ pure.op = "none"
    /\ \E verb \in {"trigger", "route", "say", "chat"}, payload \in Payloads :
          pure' = [op |-> "request", verb |-> verb, payload |-> payload,
                   http |-> http_handler(verb, payload),
                   ws |-> ws_handler(verb, payload)]
    /\ UNCHANGED <<routerVars, playerVars, loadVars, chatVars, runVars, cliVars>>

pure_reset ==
    /\ pure.op # "none"
    /\ pure' = PureIdle
    /\ UNCHANGED <<routerVars, playerVars, loadVars, chatVars, runVars, cliVars>>

(***************************************************************************)
(* The orchestrator: NestorCore.route_emotion / chat (master_nestor_http)  *)
(* and NestorMaster.route_emotion / handle_text (master_nestor (1)).  A    *)
(* session is a thread running one turn at a time; it calls analyze as the *)
(* router caller router_of(s) and trigger_emotion as caller_of(s).  One    *)
(* session is run: the turns of the console loop of NestorMaster, or the   *)
(* requests of one client of NestorCore, follow each other.                *)
(***************************************************************************)
Sessions == {"s1"}

router_of(s) == IF s = "s1" THEN "r1" ELSE "r2"
caller_of(s) == IF s = "s1" THEN "h1" ELSE "h2"

MaxTurns == 2        \* turns started per behaviour

\* the canned replies of generate_reply and the prefix of the echo
Oui == <<"o", "u", "i">>
Bonne == <<"q">>
Ecoute == <<"j", " ">>

ChatTexts == { <<>>, <<"a">>, <<"A", "b">>, <<"a", "?">> }

\* generate_reply
generate_reply(user_text) ==
    IF user_text = <<>> THEN Oui
    ELSE IF user_text[Len(user_text)] = "?" THEN Bonne
    ELSE Ecoute \o user_text

\* what analyze returned to a turn, with the time it read, the timestamp
\* its gate saw and whether it wrote last_trigger_ts
NoRaw == [emo |-> None, score |-> 0, now |-> 0, seen |-> 0, stored |-> FALSE]

TurnIdle ==
    [pc |-> "idle", text |-> <<>>, reply |-> <<>>,
     emo_in |-> None, score_in |-> 0, emo_reply |-> None, score_reply |-> 0,
     raw_in |-> NoRaw, raw_reply |-> NoRaw, calls |-> <<>>]

ChatIdle == chat = [s \in Sessions |-> TurnIdle] /\ turns = 0

\* route_emotion, lines 113-117: `if emo and emo != "idle"`
route_result(res) ==
    IF res.emo # None /\ res.emo # "" /\ res.emo # "idle"
    THEN res ELSE NoResult

\* a turn starts: chat(text) / handle_text(text)
chat_call(s, text) ==
    /\ phase = "ready"
    /\ turns < MaxTurns
    /\ chat[s].pc = "idle"
    /\ chat' = [chat EXCEPT ![s] =
                  [TurnIdle EXCEPT !.pc = "route_in", !.text = text]]
    /\ turns' = turns + 1
    /\ UNCHANGED <<routerVars, playerVars, pure, loadVars, runVars, cliVars>>

\* route_emotion, line 112: self.router.analyze(text), for the input text
\* (chat line 129) and for the reply (chat line 135)
chat_route_call(s) ==
    /\ chat[s].pc \in {"route_in", "route_reply"}
    /\ analyze_enter(router_of(s),
                     IF chat[s].pc = "route_in" THEN chat[s].text
                     ELSE chat[s].reply)
    /\ chat' = [chat EXCEPT ![s].pc =
                  IF chat[s].pc = "route_in" THEN "in_analyze"
                  ELSE "reply_analyze"]
    /\ UNCHANGED turns
    /\ UNCHANGED <<playerVars, pure, loadVars, runVars, cliVars>>

\* route_emotion, lines 113-117, and the test of chat lines 130 and 136
chat_route_return(s) ==
    /\ chat[s].pc \in {"in_analyze", "reply_analyze"}
    /\ analyze_leave(router_of(s))
    /\ LET r == router_of(s)
           out == route_result(rret[r])
           raw == [emo |-> rret[r].emo, score |-> rret[r].score,
                   now |-> rnow[r], seen |-> rseen[r], stored |-> rstored[r]]
       IN  chat' = [chat EXCEPT ![s] =
              IF chat[s].pc = "in_analyze"
              THEN [@ EXCEPT !.emo_in = out.emo, !.score_in = out.score,
                             !.raw_in = raw,
                             !.pc = IF out.emo # None THEN "trigger_in"
                                    ELSE "reply"]
              ELSE [@ EXCEPT !.emo_reply = out.emo, !.score_reply = out.score,
                             !.raw_reply = raw,
                             !.pc = IF out.emo # None THEN "trigger_reply"
                                    ELSE "say"]]
    /\ UNCHANGED turns
    /\ UNCHANGED <<playerVars, pure, loadVars, runVars, cliVars>>

\* chat lines 131 and 137: self.player.trigger_emotion(emo)
chat_trigger_call(s) ==
    /\ chat[s].pc \in {"trigger_in", "trigger_reply"}
    /\ LET in == chat[s].pc = "trigger_in"
           emo == IF in THEN chat[s].emo_in ELSE chat[s].emo_reply
       IN  /\ trigger_enter(caller_of(s), emo)
           /\ chat' = [chat EXCEPT ![s] =
                  [@ EXCEPT !.calls = Append(@, [for |-> IF in THEN "in"
                                                         ELSE "reply",
                                                 name |-> emo]),
                            !.pc = IF in THEN "in_trigger"
                                   ELSE "reply_trigger"]]
    /\ UNCHANGED turns
    /\ UNCHANGED <<routerVars, pure, loadVars, runVars, cliVars>>

\* trigger_emotion has returned to the turn
chat_trigger_return(s) ==
    /\ chat[s].pc \in {"in_trigger", "reply_trigger"}
    /\ ppc[caller_of(s)] = "idle"
    /\ chat' = [chat EXCEPT ![s].pc =
                  IF chat[s].pc = "in_trigger" THEN "reply" ELSE "say"]
    /\ UNCHANGED turns
    /\ UNCHANGED <<routerVars, playerVars, pure, loadVars, runVars, cliVars>>

\* the route verb (POST /route, cmd "route"): a classification on request
route_call(s, text) ==
    /\ phase = "ready"
    /\ turns < MaxTurns
    /\ chat[s].pc = "idle"
    /\ chat' = [chat EXCEPT ![s] =
                  [TurnIdle EXCEPT !.pc = "route_verb", !.text = text]]
    /\ turns' = turns + 1
    /\ UNCHANGED <<routerVars, playerVars, pure, loadVars, runVars, cliVars>>

\* the handler calls core.route_emotion(text), line 112: router.analyze
route_analyze_call(s) ==
    /\ chat[s].pc = "route_verb"
    /\ analyze_enter(router_of(s), chat[s].text)
    /\ chat' = [chat EXCEPT ![s].pc = "verb_analyze"]
    /\ UNCHANGED turns
    /\ UNCHANGED <<playerVars, pure, loadVars, runVars, cliVars>>

\* lines 113-117 and 186-187: the result is sent back, nothing is triggered
route_return(s) ==
    /\ chat[s].pc = "verb_analyze"
    /\ analyze_leave(router_of(s))
    /\ LET r == router_of(s)
           out == route_result(rret[r])
       IN  chat' = [chat EXCEPT ![s] =
              [@ EXCEPT !.emo_in = out.emo, !.score_in = out.score,
                        !.raw_in = [emo |-> rret[r].emo,
                                    score |-> rret[r].score,
                                    now |-> rnow[r], seen |-> rseen[r],
                                    stored |-> rstored[r]],
                        !.pc = "routed"]]
    /\ UNCHANGED turns
    /\ UNCHANGED <<playerVars, pure, loadVars, runVars, cliVars>>

\* the trigger verb with a non-empty emotion (POST /trigger lines 175-179,
\* cmd "trigger" lines 215-217): core.trigger calls trigger_emotion, line 122
trigger_verb_call(s, name) ==
    /\ phase = "ready"
    /\ turns < MaxTurns
    /\ chat[s].pc = "idle"
    /\ trigger_enter(caller_of(s), name)
    /\ chat' = [chat EXCEPT ![s] =
                  [TurnIdle EXCEPT !.pc = "verb_trigger", !.emo_in = name]]
    /\ turns' = turns + 1
    /\ UNCHANGED <<routerVars, pure, loadVars, runVars, cliVars>>

\* core.trigger returns True (line 123) and the handler answers
\* {"ok": true, "emotion": name} (lines 180 and 218)
trigger_verb_return(s) ==
    /\ chat[s].pc = "verb_trigger"
    /\ ppc[caller_of(s)] = "idle"
    /\ chat' = [chat EXCEPT ![s].pc = "triggered"]
    /\ UNCHANGED turns
    /\ UNCHANGED <<routerVars, playerVars, pure, loadVars, runVars, cliVars>>

\* chat line 133: reply = generate_reply(text)
chat_generate_reply(s) ==
    /\ chat[s].pc = "reply"
    /\ chat' = [chat EXCEPT ![s] =
                  [@ EXCEPT !.reply = generate_reply(chat[s].text),
                            !.pc = "route_reply"]]
    /\ UNCHANGED turns
    /\ UNCHANGED <<routerVars, playerVars, pure, loadVars, runVars, cliVars>>

\* chat line 139: self.tts.say(reply) is entered; TTS.say, lines 69-74,
\* hands the text to the engine and waits in runAndWait
chat_say(s) ==
    /\ chat[s].pc = "say"
    /\ chat' = [chat EXCEPT ![s].pc = "saying"]
    /\ UNCHANGED turns
    /\ UNCHANGED <<routerVars, playerVars, pure, loadVars, runVars, cliVars>>

\* TTS.say, line 74: runAndWait returns when the synthesis has finished
\* (at once for the dummy backend, lines 70-72)
chat_say_return(s) ==
    /\ chat[s].pc = "saying"
    /\ chat' = [chat EXCEPT ![s].pc = "done"]
    /\ UNCHANGED turns
    /\ UNCHANGED <<routerVars, playerVars, pure, loadVars, runVars, cliVars>>

\* TTS.say, lines 73-74: the engine raises; neither say nor chat has a
\* handler, the exception leaves the turn
chat_say_raise(s) ==
    /\ chat[s].pc = "saying"
    /\ chat' = [chat EXCEPT ![s].pc = "raised"]
    /\ UNCHANGED turns
    /\ UNCHANGED <<routerVars, playerVars, pure, loadVars, runVars, cliVars>>

\* chat lines 141-147: the turn returns its result; a turn that raised is
\* answered by the server with an error; the answer of a route or trigger
\* request is sent; the session takes the next request
chat_return(s) ==
    /\ chat[s].pc \in {"done", "raised", "routed", "triggered"}
    /\ chat' = [chat EXCEPT ![s] = TurnIdle]
    /\ UNCHANGED turns
    /\ UNCHANGED <<routerVars, playerVars, pure, loadVars, runVars, cliVars>>

(***************************************************************************)
(* The input loops: EmotionPlayer.run with _input_thread, stop and main    *)
(* (nestor_player.py), and NestorMaster.run with ConsoleInput.listen and   *)
(* main (master_nestor (1).py).  stdin holds the lines still to be read.   *)
(***************************************************************************)
MaxLines == 2        \* lines on standard input

RunThread == "h1"    \* the main thread, as a caller of trigger_emotion

\* console lines of the player, stripped: emotion names, commands, blank
RunLines == {"joie", "idle", "inconnu", "list", "quit", "QUIT", ""}

QuitWords == {"quit", "exit", "q"}

\* cmd.lower(), on the console lines drawn
cmd_lower(cmd) == IF cmd = "QUIT" THEN "quit" ELSE cmd

\* a quit word recognised in its lower-case spelling only
is_quit_case_sensitive(cmd) == cmd \in QuitWords

\* line 186: cmd.lower() in ("quit", "exit", "q")
is_quit(cmd) == cmd_lower(cmd) \in QuitWords

Stdins == SeqsUpTo(RunLines, MaxLines)

\* console lines of the master: texts, and the word quit
Quit == <<"q", "u", "i", "t">>
Exit == <<"e", "x", "i", "t">>

MasterLines == {<<>>, <<"a">>, <<"A", "b">>, Quit}

MasterStdins == SeqsUpTo(MasterLines, MaxLines)

RunIdle ==
    /\ stdin = <<>>
    /\ command_q = <<>>
    /\ stop_flag = FALSE
    /\ run_pc = "new"
    /\ run_cmd = None
    /\ stop_cmds = 0
    /\ master_pc = "new"

\* stop, lines 210-215: the flag, then player.stop()
player_stop ==
    /\ stop_flag' = TRUE
    /\ stop_cmds' = stop_cmds + 1
    /\ playing' = NoMedia

\* run, lines 170-171: the input thread is started, the loop is entered
run_start ==
    /\ phase = "ready"
    /\ run_pc = "new"
    /\ run_pc' = "loop"
    /\ UNCHANGED <<stdin, command_q, stop_flag, run_cmd, stop_cmds, master_pc>>
    /\ UNCHANGED <<routerVars, playerVars, pure, loadVars, chatVars, cliVars>>

\* _input_thread, lines 198-208: one line goes from stdin to the queue
input_put ==
    /\ run_pc \notin {"new", "exited"}
    /\ stdin # <<>>
    /\ command_q' = Append(command_q, Head(stdin))
    /\ stdin' = Tail(stdin)
    /\ UNCHANGED <<stop_flag, run_pc, run_cmd, stop_cmds, master_pc>>
    /\ UNCHANGED <<routerVars, playerVars, pure, loadVars, chatVars, cliVars>>

\* _input_thread, lines 201-203: KeyboardInterrupt sets the stop flag
input_interrupt ==
    /\ run_pc \notin {"new", "exited"}
    /\ ~stop_flag
    /\ stop_flag' = TRUE
    /\ UNCHANGED <<stdin, command_q, run_pc, run_cmd, stop_cmds, master_pc>>
    /\ UNCHANGED <<routerVars, playerVars, pure, loadVars, chatVars, cliVars>>

\* line 178: while not self.stop_flag.is_set()
run_loop_test ==
    /\ run_pc = "loop"
    /\ run_pc' = IF stop_flag THEN "finally" ELSE "get"
    /\ UNCHANGED <<stdin, command_q, stop_flag, run_cmd, stop_cmds, master_pc>>
    /\ UNCHANGED <<routerVars, playerVars, pure, loadVars, chatVars, cliVars>>

\* lines 179-182: command_q.get(timeout=0.2); queue.Empty continues
run_get ==
    /\ run_pc = "get"
    /\ IF command_q = <<>>
       THEN /\ run_pc' = "loop"
            /\ UNCHANGED <<command_q, run_cmd>>
       ELSE /\ run_cmd' = Head(command_q)
            /\ command_q' = Tail(command_q)
            /\ run_pc' = "dispatch"
    /\ UNCHANGED <<stdin, stop_flag, stop_cmds, master_pc>>
    /\ UNCHANGED <<routerVars, playerVars, pure, loadVars, chatVars, cliVars>>

\* lines 183-189: blank line, quit, list
run_dispatch ==
    /\ run_pc = "dispatch"
    /\ is_quit(run_cmd) \/ cmd_lower(run_cmd) \in {"", "list"}
    /\ run_pc' = IF is_quit(run_cmd) THEN "finally" ELSE "loop"
    /\ run_cmd' = IF is_quit(run_cmd) THEN run_cmd ELSE None
    /\ UNCHANGED <<stdin, command_q, stop_flag, stop_cmds, master_pc>>
    /\ UNCHANGED <<routerVars, playerVars, pure, loadVars, chatVars, cliVars>>

\* lines 190-192: self.trigger_emotion(cmd)
run_trigger_call ==
    /\ run_pc = "dispatch"
    /\ ~is_quit(run_cmd) /\ cmd_lower(run_cmd) \notin {"", "list"}
    /\ trigger_enter(RunThread, run_cmd)
    /\ run_pc' = "trigger"
    /\ UNCHANGED <<stdin, command_q, stop_flag, run_cmd, stop_cmds, master_pc>>
    /\ UNCHANGED <<routerVars, pure, loadVars, chatVars, cliVars>>

\* trigger_emotion has returned to the loop
run_trigger_return ==
    /\ run_pc = "trigger"
    /\ ppc[RunThread] = "idle"
    /\ run_pc' = "loop"
    /\ run_cmd' = None
    /\ UNCHANGED <<stdin, command_q, stop_flag, stop_cmds, master_pc>>
    /\ UNCHANGED <<routerVars, playerVars, pure, loadVars, chatVars, cliVars>>

\* an exception in the loop (KeyboardInterrupt while waiting on the queue)
run_interrupt ==
    /\ run_pc \in {"loop", "get"}
    /\ run_pc' = "finally"
    /\ UNCHANGED <<stdin, command_q, stop_flag, run_cmd, stop_cmds, master_pc>>
    /\ UNCHANGED <<routerVars, playerVars, pure, loadVars, chatVars, cliVars>>

\* lines 193-194: finally: self.stop()
run_finally ==
    /\ run_pc = "finally"
    /\ player_stop
    /\ run_pc' = "returned"
    /\ UNCHANGED <<stdin, command_q, run_cmd, master_pc>>
    /\ UNCHANGED <<current_mode, lock_owner, ended, pending_ends, ppc, parg,
                   pcmds, cbpc, cb_from, cb_cmds, triggers, requested,
                   warned>>
    /\ UNCHANGED <<routerVars, pure, loadVars, chatVars, cliVars>>

\* main, lines 226-231: finally: player.stop(), then the process ends
main_finally ==
    /\ run_pc = "returned"
    /\ player_stop
    /\ run_pc' = "exited"
    /\ UNCHANGED <<stdin, command_q, run_cmd, master_pc>>
    /\ UNCHANGED <<current_mode, lock_owner, ended, pending_ends, ppc, parg,
                   pcmds, cbpc, cb_from, cb_cmds, triggers, requested,
                   warned>>
    /\ UNCHANGED <<routerVars, pure, loadVars, chatVars, cliVars>>

\* NestorMaster.run, line 173: the loop is entered
master_start ==
    /\ phase = "ready"
    /\ master_pc = "new"
    /\ master_pc' = "listen"
    /\ UNCHANGED <<stdin, command_q, stop_flag, run_pc, run_cmd, stop_cmds>>
    /\ UNCHANGED <<routerVars, playerVars, pure, loadVars, chatVars, cliVars>>

\* run lines 174-176 with ConsoleInput.listen and handle_text lines
\* 152-156: end of input gives None, None and quit / exit end the loop,
\* any other text starts a turn
master_listen ==
    /\ master_pc = "listen"
    /\ IF stdin = <<>> \/ lower(Head(stdin)) \in {Quit, Exit}
       THEN /\ master_pc' = "exited"
            /\ UNCHANGED <<chat, turns>>
       ELSE /\ master_pc' = "turn"
            /\ turns' = turns + 1
            /\ chat' = [chat EXCEPT !["s1"] =
                          [TurnIdle EXCEPT !.pc = "route_in",
                                           !.text = Head(stdin)]]
    /\ stdin' = IF stdin = <<>> THEN stdin ELSE Tail(stdin)
    /\ UNCHANGED <<command_q, stop_flag, run_pc, run_cmd, stop_cmds>>
    /\ UNCHANGED <<routerVars, playerVars, pure, loadVars, cliVars>>

\* handle_text line 169 returns True, the loop goes on
master_turn_done ==
    /\ master_pc = "turn"
    /\ chat["s1"].pc = "done"
    /\ chat' = [chat EXCEPT !["s1"] = TurnIdle]
    /\ master_pc' = "listen"
    /\ UNCHANGED turns
    /\ UNCHANGED <<stdin, command_q, stop_flag, run_pc, run_cmd, stop_cmds>>
    /\ UNCHANGED <<routerVars, playerVars, pure, loadVars, cliVars>>

\* handle_text raised: run has no handler and main (lines 186-190) catches
\* KeyboardInterrupt only, the process ends with the traceback
master_turn_raised ==
    /\ master_pc = "turn"
    /\ chat["s1"].pc = "raised"
    /\ master_pc' = "crashed"
    /\ UNCHANGED <<stdin, command_q, stop_flag, run_pc, run_cmd, stop_cmds>>
    /\ UNCHANGED <<routerVars, playerVars, pure, loadVars, chatVars, cliVars>>

\* KeyboardInterrupt: listen returns None (lines 76-77), and main lines
\* 187-190 end the process
master_interrupt ==
    /\ master_pc = "listen"
    /\ master_pc' = "exited"
    /\ UNCHANGED <<stdin, command_q, stop_flag, run_pc, run_cmd, stop_cmds>>
    /\ UNCHANGED <<routerVars, playerVars, pure, loadVars, chatVars, cliVars>>

(***************************************************************************)
(* The text session: main of app_cli.py (the CLI loop) and run_once of     *)
(* session.py, over SessionState.history and the session JSONL file.       *)
(***************************************************************************)
\* a corpus item with a setup and a punchline
Joke == [setup |-> "toc toc", punch |-> "qui est la"]

\* no item chosen yet
NoItem == [setup |-> "", punch |-> ""]

\* the CLI is not running: SessionState() has an empty history (line 19);
\* found tells whether a corpus file exists, items is what it holds
CliOff ==
    [pc |-> "off", stdin |-> <<>>, found |-> FALSE, items |-> <<>>,
     compact |-> FALSE, item |-> NoItem, llm_calls |-> 0]

CliIdle == history = <<>> /\ jsonl = <<>> /\ cli = CliOff

\* build_prompt, lines 97-117, and the suffix of app_cli lines 67-68: the
\* prompt is told apart by its form, the texts it carries and the suffix
build_prompt(item, compact) ==
    [form |-> IF item.setup # "" /\ item.punch # "" THEN "blague"
              ELSE IF item.setup # "" THEN "remixe"
              ELSE "libre",
     setup |-> item.setup, punch |-> item.punch, two_sentences |-> compact]

\* a failing client passed on as an empty answer
maybe_call_llm_silent(prompt, out) ==
    IF out = "raise" THEN [head |-> "", of |-> build_prompt(NoItem, FALSE)]
    ELSE [head |-> "bla", of |-> build_prompt(NoItem, FALSE)]

\* maybe_call_llm, lines 124-145: the client returns a string, a dict with
\* a text, a dict without one (dumped as JSON), or raises; the except
\* clause returns "(fallback LLM OFF) " + prompt.  A text is its head and
\* the prompt that follows it (the prompt of no item: none follows)
maybe_call_llm(prompt, out) ==
    CASE out = "str" ->
           [head |-> "bla", of |-> build_prompt(NoItem, FALSE)]
      [] out = "dict_text" ->
           [head |-> "bla", of |-> build_prompt(NoItem, FALSE)]
      [] out = "dict_empty" ->
           [head |-> "{}", of |-> build_prompt(NoItem, FALSE)]
      [] out = "raise" ->
           [head |-> "(fallback LLM OFF) ", of |-> prompt]

\* main, lines 19-40: load_corpus_from_config raises when no corpus file is
\* found (session.py lines 75-86), before the loop is entered
cli_start ==
    /\ cli.pc = "start"
    /\ cli' = [cli EXCEPT !.pc = IF cli.found THEN "prompt" ELSE "crashed"]
    /\ UNCHANGED <<history, jsonl>>
    /\ UNCHANGED <<routerVars, playerVars, pure, loadVars, chatVars, runVars>>

\* main, lines 43-63: one line is read and told apart; input() raises
\* EOFError at the end of input, select_item raises on an empty corpus
\* (session.py lines 92-95), neither is caught
cli_read ==
    /\ cli.pc = "prompt"
    /\ IF cli.stdin = <<>>
       THEN cli' = [cli EXCEPT !.pc = "crashed"]
       ELSE LET raw == Head(cli.stdin)
                c == [cli EXCEPT !.stdin = Tail(cli.stdin)]
            IN  CASE raw = "" ->
                       IF cli.items = <<>>
                       THEN cli' = [c EXCEPT !.pc = "crashed"]
                       ELSE \E i \in 1..Len(cli.items) :
                               cli' = [c EXCEPT !.pc = "generate",
                                                !.item = cli.items[i]]
                  [] raw \in {":q", ":quit", ":exit"} ->
                       cli' = [c EXCEPT !.pc = "quit"]
                  [] raw = ":help" -> cli' = c
                  [] raw = ":compact" ->
                       cli' = [c EXCEPT !.compact = ~cli.compact]
                  [] raw = ":zz" -> cli' = c
                  [] OTHER ->
                       cli' = [c EXCEPT !.pc = "generate",
                                        !.item = [setup |-> raw,
                                                  punch |-> ""]]
    /\ UNCHANGED <<history, jsonl>>
    /\ UNCHANGED <<routerVars, playerVars, pure, loadVars, chatVars, runVars>>

\* main, lines 66-72: the prompt, the generation, state.history.append
cli_generate ==
    /\ cli.pc = "generate"
    /\ \E out \in {"str", "dict_text", "dict_empty", "raise"} :
          LET prompt == build_prompt(cli.item, cli.compact)
              text == maybe_call_llm(prompt, out)
          IN  /\ history' = Append(history,
                                   [prompt |-> prompt, output |-> text])
              /\ cli' = [cli EXCEPT !.pc = "save",
                                    !.llm_calls = cli.llm_calls + 1]
    /\ UNCHANGED jsonl
    /\ UNCHANGED <<routerVars, playerVars, pure, loadVars, chatVars, runVars>>

\* main, lines 75-79: the text is printed and one line with the same
\* prompt and text is appended to the session file
cli_save ==
    /\ cli.pc = "save"
    /\ jsonl' = Append(jsonl, history[Len(history)])
    /\ cli' = [cli EXCEPT !.pc = "prompt", !.item = NoItem]
    /\ UNCHANGED history
    /\ UNCHANGED <<routerVars, playerVars, pure, loadVars, chatVars, runVars>>

\* run_once, lines 151-164: a missing corpus (load_corpus_from_config) and
\* an empty one (select_item) raise before anything is appended and the
\* exception is raised again; otherwise one record is appended
run_once ==
    /\ cli.pc = "start"
    /\ IF ~cli.found \/ cli.items = <<>>
       THEN /\ cli' = [cli EXCEPT !.pc = "raised"]
            /\ UNCHANGED history
       ELSE \E i \in 1..Len(cli.items),
               out \in {"str", "dict_text", "dict_empty", "raise"} :
               LET prompt == build_prompt(cli.items[i], FALSE)
                   text == maybe_call_llm(prompt, out)
               IN  /\ history' = Append(history,
                                        [prompt |-> prompt, output |-> text])
                   /\ cli' = [cli EXCEPT !.pc = "returned",
                                         !.llm_calls = cli.llm_calls + 1]
    /\ UNCHANGED jsonl
    /\ UNCHANGED <<routerVars, playerVars, pure, loadVars, chatVars, runVars>>

(***************************************************************************)
(* Specifications                                                          *)
(***************************************************************************)
RouterNext ==
    \/ Tick
    \/ \E r \in RThreads, text \in CallTexts : analyze_call(r, text)
    \/ \E r \in RThreads : analyze_now(r)
    \/ \E r \in RThreads : analyze_gate(r)
    \/ \E r \in RThreads : analyze_score(r)
    \/ \E r \in RThreads : analyze_threshold(r)
    \/ \E r \in RThreads : analyze_return(r)

PlayerNext ==
    \/ \E p \in PThreads, name \in TriggerNames : trigger_call(p, name)
    \/ \E p \in PThreads : trigger_acquire(p)
    \/ \E p \in PThreads : trigger_check(p)
    \/ \E p \in PThreads : trigger_setmode(p)
    \/ \E p \in PThreads : trigger_play(p)
    \/ \E p \in PThreads : trigger_idle_mode(p)
    \/ \E p \in PThreads : trigger_idle_play(p)
    \/ \E p \in PThreads : trigger_release(p)
    \/ vlc_end_reached
    \/ on_media_end_call
    \/ on_media_end_acquire
    \/ on_media_end_check
    \/ on_media_end_idle_mode
    \/ on_media_end_idle_play
    \/ on_media_end_release

PureNext == apply_pick_best \/ apply_scores \/ apply_request \/ pure_reset

ChatNext ==
    \/ Tick
    \/ \E s \in Sessions, text \in ChatTexts : chat_call(s, text)
    \/ \E s \in Sessions, text \in ChatTexts : route_call(s, text)
    \/ \E s \in Sessions : route_analyze_call(s)
    \/ \E s \in Sessions : route_return(s)
    \/ \E s \in Sessions, name \in TriggerNames : trigger_verb_call(s, name)
    \/ \E s \in Sessions : trigger_verb_return(s)
    \/ \E s \in Sessions : chat_route_call(s)
    \/ \E s \in Sessions : analyze_now(router_of(s))
    \/ \E s \in Sessions : analyze_gate(router_of(s))
    \/ \E s \in Sessions : analyze_score(router_of(s))
    \/ \E s \in Sessions : analyze_threshold(router_of(s))
    \/ \E s \in Sessions : chat_route_return(s)
    \/ \E s \in Sessions : chat_trigger_call(s)
    \/ \E s \in Sessions : trigger_acquire(caller_of(s))
    \/ \E s \in Sessions : trigger_check(caller_of(s))
    \/ \E s \in Sessions : trigger_setmode(caller_of(s))
    \/ \E s \in Sessions : trigger_play(caller_of(s))
    \/ \E s \in Sessions : trigger_idle_mode(caller_of(s))
    \/ \E s \in Sessions : trigger_idle_play(caller_of(s))
    \/ \E s \in Sessions : trigger_release(caller_of(s))
    \/ \E s \in Sessions : chat_trigger_return(s)
    \/ \E s \in Sessions : chat_generate_reply(s)
    \/ \E s \in Sessions : chat_say(s)
    \/ \E s \in Sessions : chat_say_return(s)
    \/ \E s \in Sessions : chat_say_raise(s)
    \/ \E s \in Sessions : chat_return(s)
    \/ vlc_end_reached
    \/ on_media_end_call
    \/ on_media_end_acquire
    \/ on_media_end_check
    \/ on_media_end_idle_mode
    \/ on_media_end_idle_play
    \/ on_media_end_release

\* the player program: run, its input thread, the VLC thread
RunNext ==
    \/ run_start
    \/ input_put
    \/ input_interrupt
    \/ run_loop_test
    \/ run_get
    \/ run_dispatch
    \/ run_trigger_call
    \/ trigger_acquire(RunThread)
    \/ trigger_check(RunThread)
    \/ trigger_setmode(RunThread)
    \/ trigger_play(RunThread)
    \/ trigger_idle_mode(RunThread)
    \/ trigger_idle_play(RunThread)
    \/ trigger_release(RunThread)
    \/ run_trigger_return
    \/ run_interrupt
    \/ run_finally
    \/ main_finally
    \/ vlc_end_reached
    \/ on_media_end_call
    \/ on_media_end_acquire
    \/ on_media_end_check
    \/ on_media_end_idle_mode
    \/ on_media_end_idle_play
    \/ on_media_end_release

\* the master program: run and the turns it starts, the VLC thread
MasterNext ==
    \/ Tick
    \/ master_start
    \/ master_listen
    \/ master_interrupt
    \/ chat_route_call("s1")
    \/ analyze_now("r1")
    \/ analyze_gate("r1")
    \/ analyze_score("r1")
    \/ analyze_threshold("r1")
    \/ chat_route_return("s1")
    \/ chat_trigger_call("s1")
    \/ trigger_acquire("h1")
    \/ trigger_check("h1")
    \/ trigger_setmode("h1")
    \/ trigger_play("h1")
    \/ trigger_release("h1")
    \/ chat_trigger_return("s1")
    \/ chat_generate_reply("s1")
    \/ chat_say("s1")
    \/ chat_say_return("s1")
    \/ chat_say_raise("s1")
    \/ master_turn_done
    \/ master_turn_raised
    \/ vlc_end_reached
    \/ on_media_end_call
    \/ on_media_end_acquire
    \/ on_media_end_check
    \/ on_media_end_idle_mode
    \/ on_media_end_idle_play
    \/ on_media_end_release

ConstructNext == init_validate \/ init_resolve \/ init_vlc \/ init_prepare_idle

CliNext == cli_start \/ cli_read \/ cli_generate \/ cli_save \/ run_once

\* no turn, no input loop and no text session is running
Quiet == ChatIdle /\ RunIdle /\ CliIdle

\* EmotionRouter over the strategies drawn, beside a constructed player
Init == RouterInit /\ PlayerInit /\ Loaded /\ pure = PureIdle /\ Quiet

\* EmotionRouter with the default strategy, beside a constructed player
DefaultInit ==
    RouterDefault /\ PlayerInit /\ Loaded /\ pure = PureIdle /\ Quiet

\* a constructed player about to run over the console input drawn
Started ==
    /\ command_q = <<>>
    /\ stop_flag = FALSE
    /\ run_pc = "new"
    /\ run_cmd = None
    /\ stop_cmds = 0
    /\ master_pc = "new"
    /\ RouterDefault /\ PlayerInit /\ Loaded /\ pure = PureIdle /\ ChatIdle
    /\ CliIdle

\* nestor_player.py main: player.run() over the console input drawn
RunInit == stdin \in Stdins /\ Started

\* master_nestor main: master.run() over the console input drawn
MasterInit == stdin \in MasterStdins /\ Started

\* EmotionPlayer(config) is about to be constructed, over the configurations
\* and disk contents drawn
ConstructInit ==
    /\ config \in GoodConfigs \cup BadConfigs
    /\ existing \in Existings
    /\ Unbuilt
    /\ RouterDefault /\ pure = PureIdle /\ Quiet

Next == RouterNext \/ PlayerNext \/ PureNext

Spec == Init /\ [][Next]_vars

\* concurrent callers of EmotionRouter.analyze
RouterSpec == Init /\ [][RouterNext]_vars

\* concurrent callers of analyze under the default strategy
RouterDefaultSpec == DefaultInit /\ [][RouterNext]_vars

\* concurrent callers of EmotionPlayer.trigger_emotion and the VLC thread
PlayerSpec == DefaultInit /\ [][PlayerNext]_vars

\* the scheduler runs every runnable thread, the player reports every end
PlayerFair ==
    /\ PlayerSpec
    /\ \A p \in PThreads :
          WF_vars(trigger_acquire(p) \/ trigger_check(p) \/ trigger_setmode(p)
                  \/ trigger_play(p) \/ trigger_idle_mode(p)
                  \/ trigger_idle_play(p) \/ trigger_release(p))
    /\ WF_vars(vlc_end_reached)
    /\ WF_vars(on_media_end_call \/ on_media_end_acquire \/ on_media_end_check
               \/ on_media_end_idle_mode \/ on_media_end_idle_play
               \/ on_media_end_release)

\* the same scheduler with clips of any length: a clip need not ever end
PlayerFairLong ==
    /\ PlayerSpec
    /\ \A p \in PThreads :
          WF_vars(trigger_acquire(p) \/ trigger_check(p) \/ trigger_setmode(p)
                  \/ trigger_play(p) \/ trigger_idle_mode(p)
                  \/ trigger_idle_play(p) \/ trigger_release(p))
    /\ WF_vars(on_media_end_call \/ on_media_end_acquire \/ on_media_end_check
               \/ on_media_end_idle_mode \/ on_media_end_idle_play
               \/ on_media_end_release)

\* construction of the player from a drawn configuration, then concurrent
\* callers of trigger_emotion and the VLC thread
ConstructSpec == ConstructInit /\ [][ConstructNext \/ PlayerNext]_vars

\* successive turns of the orchestrator over the strategies drawn
ChatSpec == Init /\ [][ChatNext]_vars

\* the console loop of the player
RunSpec == RunInit /\ [][RunNext]_vars

\* the console loop of the master
MasterSpec == MasterInit /\ [][MasterNext]_vars

\* the console loop of the master under a scheduler that runs the main
\* thread and the VLC event thread; the speech engine is left free to
\* finish, to fail or to go on
MasterFair ==
    /\ MasterSpec
    /\ WF_vars(master_start \/ master_listen \/ chat_route_call("s1")
               \/ analyze_now("r1") \/ analyze_gate("r1")
               \/ analyze_score("r1") \/ analyze_threshold("r1")
               \/ chat_route_return("s1") \/ chat_trigger_call("s1")
               \/ trigger_acquire("h1") \/ trigger_check("h1")
               \/ trigger_setmode("h1") \/ trigger_play("h1")
               \/ trigger_release("h1") \/ chat_trigger_return("s1")
               \/ chat_generate_reply("s1") \/ chat_say("s1")
               \/ master_turn_done \/ master_turn_raised)
    /\ WF_vars(on_media_end_call \/ on_media_end_acquire \/ on_media_end_check
               \/ on_media_end_idle_mode \/ on_media_end_idle_play
               \/ on_media_end_release)

\* a text session about to start, over the corpora (no file, empty, one
\* joke) and the console inputs drawn
CliInit ==
    /\ history = <<>>
    /\ jsonl = <<>>
    /\ cli \in {[CliOff EXCEPT !.pc = "start", !.found = c[1],
                                !.items = c[2], !.stdin = in] :
                  c \in {<<FALSE, <<>>>>, <<TRUE, <<>>>>, <<TRUE, <<Joke>>>>},
                  in \in SeqsUpTo({"", ":q", ":help", ":compact", ":zz",
                                   "chat"}, MaxLines)}
    /\ RouterDefault /\ PlayerInit /\ Loaded /\ pure = PureIdle
    /\ ChatIdle /\ RunIdle

\* main of app_cli.py, or run_once, on that session
CliSpec == CliInit /\ [][CliNext]_vars

\* _pick_best and the scorer on drawn inputs
PureSpec == DefaultInit /\ [][PureNext]_vars

(***************************************************************************)
(* Properties of EmotionPlayer                                             *)
(***************************************************************************)
TriggerCritical ==
    {"t_check", "t_setmode", "t_play", "t_idle_mode", "t_idle_play",
     "t_unlock"}

CallbackCritical == {"c_check", "c_idle_mode", "c_idle_play", "c_unlock"}

InCritical ==
    {p \in PThreads : ppc[p] \in TriggerCritical}
    \cup (IF cbpc \in CallbackCritical THEN {VlcThread} ELSE {})

IdleLooped == [clip |-> idle_name, loop |-> TRUE]

\* C2: trigger_emotion and _on_media_end are mutually exclusive: at most one
\* thread (callers of trigger_emotion and the VLC event thread together) is
\* between its read of current_mode, its play command and its write of
\* current_mode, and that thread is the owner of the lock.
C2_MutualExclusion ==
    /\ Cardinality(InCritical) <= 1
    /\ InCritical \subseteq {lock_owner}

C2_Witness ==
    \E p, q \in PThreads :
        /\ p # q
        /\ ppc[p] = "t_play"
        /\ ppc[q] = "t_lock"
        /\ cbpc = "c_lock"

\* whenever no thread is inside the locked section, current_mode and the
\* clip handed to the player agree
C3_Settled ==
    InCritical = {} =>
        /\ current_mode \in (requested \cap MediaNames) \cup {idle_name}
        /\ playing.clip = current_mode
        /\ playing.loop = (current_mode = idle_name)

\* C3: parallel trigger_emotion calls never raise, every call terminates,
\* and whenever no call is inside the locked section current_mode is idle
\* or one of the requested emotions and the clip last handed to the player
\* is the clip of current_mode (played once for an emotion, looped for idle).
C3_ParallelTriggers ==
    /\ [](\A p \in PThreads : ppc[p] # "raised")
    /\ []C3_Settled
    /\ \A p \in PThreads : (ppc[p] # "idle") ~> (ppc[p] = "idle")

C3_Witness ==
    \E p, q \in PThreads :
        /\ p # q
        /\ ppc[p] = "t_unlock" /\ parg[p] = "joie"
        /\ ppc[q] = "t_lock" /\ parg[q] = "tristesse"

\* C4: every _on_media_end invocation, whatever current_mode it finds, ends
\* with current_mode = idle and has issued one looped play of the idle clip.
C4_MediaEndGoesIdle ==
    cbpc = "c_unlock" =>
        /\ current_mode = idle_name
        /\ playing = IdleLooped
        /\ cb_cmds = 1

C4_Witness ==
    /\ cbpc = "c_unlock"
    /\ cb_from = "joie"
    /\ triggers >= 1

\* C5: every non-idle state is transient: once current_mode is an emotion,
\* the finished notification of the clip brings the state machine back to
\* current_mode = idle with the idle clip looping, with no caller acting.
C5_NonIdleTransient ==
    \A x \in MediaNames \ {idle_name} :
        (current_mode = x) ~> (current_mode = idle_name /\ playing = IdleLooped)

C5_Witness ==
    /\ current_mode = "joie"
    /\ playing = [clip |-> "joie", loop |-> FALSE]
    /\ triggers = MaxTriggers
    /\ \A p \in PThreads : ppc[p] = "idle"
    /\ cbpc = "idle" /\ pending_ends = 0

(***************************************************************************)
(* Properties of EmotionRouter                                             *)
(***************************************************************************)
FallbackResult == [emo |-> fallback, score |-> 0]

\* the call of r has returned something other than (fallback, 0.0) and has
\* written last_trigger_ts
Triggered(r) == rpc[r] = "ret" /\ rstored[r] /\ rret[r] # FallbackResult

\* C1: the cooldown gate is atomic: of the analyze calls that find the
\* cooldown open within one cooldown window, at most one returns a
\* non-fallback emotion and sets last_trigger_ts; the others return
\* (fallback, 0.0).
C1_AtomicCooldown ==
    \A p, q \in RThreads :
        (p # q /\ Triggered(p) /\ Triggered(q)) =>
            (rnow[p] - rnow[q] >= cooldown \/ rnow[q] - rnow[p] >= cooldown)

\* C6: a call made less than cooldown seconds after the last successful
\* trigger returns (fallback, 0.0) without scoring, whatever the text.
C6_CooldownSuppresses ==
    \A r \in RThreads :
        (rpc[r] = "ret" /\ rnow[r] - rseen[r] < cooldown) =>
            /\ rret[r] = FallbackResult
            /\ rbest[r] = NoResult
            /\ ~rstored[r]

C6_Witness ==
    \E r \in RThreads :
        /\ rpc[r] = "ret"
        /\ rseen[r] >= StartTime
        /\ rnow[r] - rseen[r] < cooldown
        /\ rtext[r] = <<"A", "b">>
        /\ min_score = 2
        /\ rret[r] = FallbackResult

TopScore(text) ==
    LET sc == scores_of(text)
    IN  CHOOSE m \in {sc[i].s : i \in 1..Len(sc)} :
            \A i \in 1..Len(sc) : sc[i].s <= m

TopScoreOf == [t \in CallTexts |-> TopScore(t)]

RealResult ==
    [t \in CallTexts |->
        [f \in Fallbacks |-> pick_best(scores_of(t), tie_breaker, f)]]

\* C7: a call suppressed by the cooldown or scoring below the threshold
\* leaves last_trigger_ts unchanged, and a call on above-threshold text made
\* at least cooldown seconds after the last successful classification
\* returns the real (emotion, score).
C7_SuppressedKeepsTimestamp ==
    [][\A r \in RThreads :
        /\ ( /\ rpc'[r] = "ret"
             /\ \/ rpc[r] = "a_gate" /\ rnow[r] - last_trigger_ts < cooldown
                \/ rpc[r] = "a_thresh" /\ rbest[r].score < min_score )
           => last_trigger_ts' = last_trigger_ts
        /\ ( /\ rpc[r] # "ret" /\ rpc'[r] = "ret"
             /\ rnow'[r] - rseen'[r] >= cooldown
             /\ TopScoreOf[rtext'[r]] >= min_score )
           => /\ rret'[r].score = TopScoreOf[rtext'[r]]
              /\ rret'[r] = RealResult[rtext'[r]][fallback]
      ]_vars

C7_Witness ==
    \E p, q \in RThreads :
        /\ p # q
        /\ cooldown = 2 /\ min_score = 1
        /\ rpc[p] = "ret" /\ rret[p] = FallbackResult
        /\ rseen[p] >= StartTime /\ rnow[p] - rseen[p] < cooldown
        /\ rtext[p] = <<"A", "b">>
        /\ rpc[q] = "ret" /\ rseen[q] = rseen[p]
        /\ rnow[q] > rnow[p] /\ rnow[q] - rseen[q] >= cooldown
        /\ rret[q] = [emo |-> "joie", score |-> 2]

\* C8: analyze never returns a score below min_score_to_trigger, except as
\* (fallback, 0.0).
C8_NeverBelowThreshold ==
    \A r \in RThreads :
        (rpc[r] = "ret" /\ rret[r].score < min_score) =>
            rret[r] = FallbackResult

C8_Witness ==
    \E r \in RThreads :
        /\ rpc[r] = "ret"
        /\ min_score = 2
        /\ rtext[r] = <<"a">>
        /\ rbest[r] = [emo |-> "joie", score |-> 1]
        /\ rret[r] = FallbackResult

(***************************************************************************)
(* Properties of _pick_best and of the scorer                              *)
(***************************************************************************)
IndexOf(entries, emo) ==
    CHOOSE i \in 1..Len(entries) : entries[i].name = emo

\* C9: _pick_best returns the highest score and an emotion that has it;
\* among emotions tied at the highest positive score under tie_breaker
\* "priority" it returns the one of highest priority, and among those of
\* equal priority the one declared first.
C9_PickBest ==
    (pure.op = "pick_best" /\ pure.in # <<>>) =>
        LET e    == pure.in
            idx  == 1..Len(e)
            tops == {i \in idx : \A j \in idx : e[j].s <= e[i].s}
            w    == IndexOf(e, pure.out.emo)
        IN  /\ \E i \in idx : e[i].name = pure.out.emo
            /\ w \in tops
            /\ pure.out.score = e[w].s
            /\ (e[w].s > 0 /\ pure.tb = "priority") =>
                  /\ \A j \in tops : e[j].priority <= e[w].priority
                  /\ \A j \in tops : e[j].priority = e[w].priority => w <= j

C9_Witness ==
    /\ pure.op = "pick_best"
    /\ pure.tb = "priority"
    /\ Len(pure.in) = 3
    /\ pure.in[1].s = 2 /\ pure.in[2].s = 2 /\ pure.in[3].s = 2
    /\ pure.in[1].priority = 0
    /\ pure.in[2].priority = 1 /\ pure.in[3].priority = 1
    /\ pure.out = [emo |-> "e2", score |-> 2]

\* C26: when tie_breaker is not "priority" the priorities are ignored:
\* among the emotions tied at the highest positive score the one declared
\* first is returned.
C26_FirstDeclaredWins ==
    (pure.op = "pick_best" /\ pure.tb # "priority" /\ pure.in # <<>>) =>
        LET e    == pure.in
            idx  == 1..Len(e)
            tops == {i \in idx : \A j \in idx : e[j].s <= e[i].s}
            w    == IndexOf(e, pure.out.emo)
        IN  (\E i \in tops : e[i].s > 0) =>
                /\ \E i \in idx : e[i].name = pure.out.emo
                /\ w \in tops
                /\ \A j \in tops : w <= j

\* two emotions tied at score 2, the second of higher priority: the first
\* is returned
C26_Witness ==
    /\ pure.op = "pick_best"
    /\ pure.tb = "first"
    /\ Len(pure.in) >= 2
    /\ pure.in[1].s = 2 /\ pure.in[2].s = 2
    /\ pure.in[1].priority = 0 /\ pure.in[2].priority = 2
    /\ pure.out = [emo |-> "e1", score |-> 2]

\* the letter a character stands for, without case or accent
Letter(c) ==
    CASE c \in {"a", "A", "a^", "A^"} -> "a"
      [] c \in {"b", "B"}             -> "b"
      [] OTHER                        -> c

Letters(s) == [i \in 1..Len(s) |-> Letter(s[i])]

\* w occupies positions i..j of t with nothing but spaces or the text's
\* ends around it
WholeToken(w, t) ==
    /\ w # <<>>
    /\ \A k \in 1..Len(w) : w[k] # " "
    /\ \E i \in 1..Len(t) :
          LET j == i + Len(w) - 1
          IN  /\ j <= Len(t)
              /\ \A k \in 1..Len(w) : t[i + k - 1] = w[k]
              /\ (i = 1 \/ t[i - 1] = " ")
              /\ (j = Len(t) \/ t[j + 1] = " ")

Contiguous(w, t) ==
    \E a, b \in 0..Len(t) :
        /\ a + Len(w) + b = Len(t)
        /\ \A k \in 1..Len(w) : t[a + k] = w[k]

RECURSIVE SumOver(_, _)
SumOver(S, f) ==
    IF S = {} THEN 0
    ELSE LET x == CHOOSE y \in S : TRUE IN f[x] + SumOver(S \ {x}, f)

ExpectedScore(data, text) ==
    LET t  == Letters(text)
        kw == {i \in 1..Len(data.keywords) :
                 WholeToken(Letters(data.keywords[i].k), t)}
        ph == {i \in 1..Len(data.phrases) :
                 Contiguous(Letters(data.phrases[i].k), t)}
    IN  SumOver(kw, [i \in kw |-> data.keywords[i].w])
        + SumOver(ph, [i \in ph |-> data.phrases[i].w])

\* C10: the score of every emotion is the sum of the weights of its keywords
\* that are a whole token of the text and of its phrases that are a
\* contiguous part of the text, case and accents apart; the text with its
\* case and accents removed has the same scores.
C10_Scores ==
    pure.op = "scores" =>
        /\ \A i \in 1..Len(routing) :
              /\ pure.out[i].name = routing[i].name
              /\ pure.out[i].s = ExpectedScore(routing[i], pure.text)
        /\ pure.out = scores_of(Letters(pure.text))

C10_Witness ==
    /\ pure.op = "scores"
    /\ pure.text = <<"a^", "b", " ", "A">>
    /\ pure.out[2].s = 6
    /\ pure.out[3].s = 1

(***************************************************************************)
(* Zero scores (emotion_router.py lines 49-66)                             *)
(***************************************************************************)
\* the emotions of the routing map that have neither keywords nor phrases
Termless ==
    {routing[i].name : i \in {j \in 1..Len(routing) :
        routing[j].keywords = <<>> /\ routing[j].phrases = <<>>}}

\* C11: an emotion whose score is zero never wins: whatever the strategy,
\* empty text yields (fallback, 0.0) and leaves last_trigger_ts unchanged,
\* and an emotion without keywords and phrases is returned only as the
\* fallback.
C11_ZeroScoreNeverWins ==
    \A r \in RThreads :
        rpc[r] = "ret" =>
            /\ rtext[r] = <<>> => (rret[r] = FallbackResult /\ ~rstored[r])
            /\ rret[r].emo \in Termless => rret[r].emo = fallback

(***************************************************************************)
(* Properties of trigger_emotion taken call by call                        *)
(***************************************************************************)
\* p is inside trigger_emotion(name)
InTrigger(p, name) == ppc[p] \notin {"idle", "raised"} /\ parg[p] = name

\* C12: trigger_emotion with a name that is no key of the media map is a
\* no-op: every step of the call leaves current_mode and the playback
\* resource untouched, issues no play command, and the call returns without
\* raising.
C12_UnknownIsNoOp ==
    [][\A p \in PThreads :
        (InTrigger(p, "inconnu") /\ ppc'[p] # ppc[p]) =>
            /\ current_mode' = current_mode
            /\ playing' = playing
            /\ ended' = ended
            /\ pcmds[p] = 0
            /\ ppc'[p] \in {"t_check", "t_unlock", "idle"}
      ]_vars

C12_Witness ==
    \E p \in PThreads :
        /\ ppc[p] = "t_unlock"
        /\ parg[p] = "inconnu"
        /\ lock_owner = p
        /\ current_mode = "joie"
        /\ playing = [clip |-> "joie", loop |-> FALSE]

\* C13: trigger_emotion("idle") is idempotent: from any state the call
\* never raises, ends with current_mode = idle, and has issued one looped
\* play command for the idle clip, also when the player was already idle.
C13_IdleIdempotent ==
    \A p \in PThreads :
        /\ parg[p] = idle_name => ppc[p] # "raised"
        /\ (ppc[p] = "t_unlock" /\ parg[p] = idle_name) =>
              /\ current_mode = idle_name
              /\ playing = IdleLooped
              /\ pcmds[p] = 1

\* the third trigger_emotion("idle") in a row, the player being idle already
C13_Witness ==
    \E p \in PThreads :
        /\ ppc[p] = "t_unlock" /\ parg[p] = idle_name /\ pcmds[p] = 1
        /\ \A q \in PThreads \ {p} : ppc[q] = "idle"
        /\ triggers = MaxTriggers
        /\ requested = {idle_name}
        /\ current_mode = idle_name

\* C14: trigger_emotion(X) for a configured non-idle X sets current_mode to
\* X and issues exactly one play command for the clip of X with looping off,
\* whatever the "loop" flag configured for X; the idle clip is only ever
\* played with looping on, whatever the "loop" flag configured for idle.
C14_OnceWhateverLoopFlag ==
    /\ \A p \in PThreads :
          (ppc[p] = "t_unlock" /\ known(parg[p]) /\ parg[p] # idle_name) =>
              /\ current_mode = parg[p]
              /\ playing = [clip |-> parg[p], loop |-> FALSE]
              /\ pcmds[p] = 1
    /\ playing.clip = idle_name => playing.loop

\* joie is configured with "loop": true and idle with "loop": false; joie
\* has been triggered after an earlier clip ended and idle was restarted
C14_Witness ==
    \E p \in PThreads :
        /\ phase = "ready"
        /\ media_map["joie"].loop /\ ~media_map["idle"].loop
        /\ ppc[p] = "t_unlock" /\ parg[p] = "joie" /\ pcmds[p] = 1
        /\ playing = [clip |-> "joie", loop |-> FALSE]
        /\ triggers = 2
        /\ \A q \in PThreads \ {p} : ppc[q] = "idle"
        /\ cbpc = "idle" /\ pending_ends = 0

\* the clip file of a key of the media map is not on disk
Missing(name) == known(name) /\ media_map[name].file \notin existing

\* C17: when the clip file of a configured emotion is missing at play
\* time, trigger_emotion still sets current_mode to the emotion and still
\* hands the play command to the player (after reporting the file); it
\* does not raise and does not set current_mode back.
C17_MissingFileProceeds ==
    \A p \in PThreads :
        /\ ppc[p] # "raised"
        /\ (ppc[p] = "t_unlock" /\ Missing(parg[p])) =>
              /\ current_mode = parg[p]
              /\ playing.clip = parg[p]
              /\ pcmds[p] = 1
              /\ parg[p] \in warned

C17_Witness ==
    \E p \in PThreads :
        /\ ppc[p] = "t_unlock" /\ parg[p] = "joie"
        /\ "joie" \notin existing /\ "idle" \in existing
        /\ current_mode = "joie"
        /\ playing = [clip |-> "joie", loop |-> FALSE]
        /\ warned = {"joie"}

(***************************************************************************)
(* Properties of the construction                                          *)
(***************************************************************************)
\* no "emotions" object, no "idle" entry, or an entry without "file"
Defective(cfg) ==
    \/ ~cfg.has_emotions
    \/ "idle" \notin DOMAIN cfg.emotions
    \/ \E n \in DOMAIN cfg.emotions : ~cfg.emotions[n].has_file

\* C18: for a configuration without "emotions", without "idle" or with an
\* entry lacking "file" the construction of EmotionPlayer fails before any
\* play command is issued and before any request is served: the player is
\* never ready.
C18_DefectiveConfigFails ==
    Defective(config) =>
        /\ phase \in {"validate", "failed"}
        /\ playing = NoMedia
        /\ current_mode = None
        /\ triggers = 0
        /\ \A p \in PThreads : ppc[p] = "idle"

C18_Witness ==
    /\ config = NoFileKey
    /\ phase = "failed"
    /\ playing = NoMedia
    /\ triggers = 0

\* C19: loading the configuration checks that the clip of every non-idle
\* emotion exists: with a clip file missing, the construction of
\* EmotionPlayer does not complete.
C19_MissingClipDetectedAtLoad ==
    (\E n \in DOMAIN config.emotions :
        n # idle_name /\ resolve_media_paths(config.emotions)[n].file
                            \notin existing)
        => phase # "ready"

(***************************************************************************)
(* Properties of the orchestrator                                          *)
(***************************************************************************)
\* the classification a trigger_emotion call of the turn was made for
RawFor(s, call) ==
    IF call.for = "in" THEN chat[s].raw_in ELSE chat[s].raw_reply

\* C15: the orchestrator calls trigger_emotion for a text only when the
\* classifier returned, for that text, a non-idle emotion with a score of at
\* least min_score_to_trigger: whatever the strategy, a classification below
\* the threshold or suppressed by the cooldown causes no trigger.
C15_TriggerOnlyAboveThreshold ==
    \A s \in Sessions :
        \A i \in 1..Len(chat[s].calls) :
            LET raw == RawFor(s, chat[s].calls[i])
            IN  /\ chat[s].calls[i].name = raw.emo
                /\ raw.emo # "idle"
                /\ raw.score >= min_score
                /\ raw.stored

\* C16: in one turn the input text and then the reply are classified by the
\* same router against its single cooldown timestamp; the turn makes at most
\* two trigger_emotion calls, the one for the input before the one for the
\* reply; when the input classification succeeded and the reply is
\* classified less than cooldown seconds later, the reply classification is
\* suppressed (emotion_reply None, score 0.0) and the turn has made exactly
\* one trigger_emotion call.
C16_DoubleRouting ==
    \A s \in Sessions :
        LET t == chat[s]
        IN  /\ Len(t.calls) <= 2
            /\ \A i, j \in 1..Len(t.calls) :
                  (i < j) => (t.calls[i].for = "in" /\ t.calls[j].for = "reply")
            /\ (t.pc = "done" /\ t.raw_in.stored) =>
                  t.raw_reply.seen = t.raw_in.now
            /\ ( /\ t.pc = "done" /\ t.raw_in.stored
                 /\ t.raw_reply.now - t.raw_in.now < cooldown ) =>
                  /\ ~t.raw_reply.stored
                  /\ t.emo_reply = None /\ t.score_reply = 0
                  /\ Len(t.calls) = 1

\* C31: every trigger the orchestration layer reports as performed is a
\* state change of the player: a trigger_emotion call made for a chat turn
\* or for the trigger verb, which the caller goes on to report (emotion_in,
\* emotion_reply, ok: true), ends having issued one play command for that
\* emotion, with current_mode set to it.
C31_ReportedTriggerPlayed ==
    \A s \in Sessions :
        LET c == caller_of(s)
        IN  ( /\ chat[s].pc \in {"in_trigger", "reply_trigger", "verb_trigger"}
              /\ ppc[c] = "t_unlock" ) =>
                /\ pcmds[c] = 1
                /\ current_mode = parg[c]
                /\ playing.clip = parg[c]

\* C30: the cooldown timestamp is written only by a classification that is
\* followed by a playback trigger: when a request has been served, a
\* classification of it that wrote last_trigger_ts has a trigger_emotion
\* call made for it.
C30_TimestampOnlyWithTrigger ==
    \A s \in Sessions :
        chat[s].pc \in {"done", "routed"} =>
            /\ chat[s].raw_in.stored =>
                  \E i \in 1..Len(chat[s].calls) : chat[s].calls[i].for = "in"
            /\ chat[s].raw_reply.stored =>
                  \E i \in 1..Len(chat[s].calls) :
                      chat[s].calls[i].for = "reply"

(***************************************************************************)
(* Properties of the input loops                                           *)
(***************************************************************************)
\* C20: after a stop signal the input loop exits and, when the program
\* shuts down, a stop command has been issued to the player; this holds for
\* EmotionPlayer.run and for NestorMaster.run.
C20_StopOnShutdown ==
    /\ run_pc = "exited" => stop_cmds > 0
    /\ master_pc = "exited" => stop_cmds > 0

\* C21: a failure of a collaborator is caught at the orchestration
\* boundary: a speech synthesis that fails inside chat / handle_text does
\* not leave the turn as an exception and does not end the session.
C21_CollaboratorFailureCaught ==
    /\ \A s \in Sessions : chat[s].pc # "raised"
    /\ master_pc # "crashed"

\* C25: speaking is fire-and-forget: a turn completes without waiting for
\* the speech synthesis, so every turn that has started ends whether or not
\* the synthesis ever finishes.
C25_SpeakFireAndForget ==
    (master_pc = "turn") ~> (master_pc # "turn")


(***************************************************************************)
(* Commands reaching the media player                                      *)
(***************************************************************************)
\* a step that hands a clip to the player (set_media + play)
PlayIssued ==
    \/ \E p \in PThreads : pcmds'[p] = pcmds[p] + 1
    \/ cb_cmds' = cb_cmds + 1

\* C22: a play command that comes while a looped playback is active is
\* preceded by a stop command: no play command is issued in a state where
\* the player still plays a looped clip.
C22_StopBeforeReplacingLoop ==
    [][PlayIssued => ~playing.loop]_vars


(***************************************************************************)
(* Properties of the network surfaces                                      *)
(***************************************************************************)
\* the calls of an outcome that reach the router or the player
effect(o) ==
    [i \in 1..Len(o.calls) |->
        IF o.calls[i].call = "trigger" THEN o.calls[i].does
        ELSE <<[call |-> o.calls[i].call, arg |-> o.calls[i].arg]>>]

\* C23: for each of the four verbs and every payload the WebSocket handler
\* gives the outcome (success or error) of the HTTP route and makes the same
\* calls on the router and the player.
C23_WsMirrorsHttp ==
    pure.op = "request" =>
        /\ pure.ws.status = pure.http.status
        /\ effect(pure.ws) = effect(pure.http)


(***************************************************************************)
(* The lock and the length of a clip                                       *)
(***************************************************************************)
\* C24: the lock is held for the state check and the hand-off to the player
\* only, never for the length of a clip: a caller that has returned (or not
\* yet acquired) does not own the lock, a call of trigger_emotion(Y) that
\* has handed Y to the player has replaced whatever was playing
\* (current_mode = Y), and with clips that never end a waiting caller and a
\* waiting finished notification still acquire the lock.
C24_LockNotHeldDuringPlayback ==
    /\ [](\A p \in PThreads : lock_owner = p => ppc[p] \in TriggerCritical)
    /\ [](\A p \in PThreads :
            (ppc[p] = "t_unlock" /\ pcmds[p] = 1 /\ parg[p] # idle_name) =>
                /\ current_mode = parg[p]
                /\ playing = [clip |-> parg[p], loop |-> FALSE])
    /\ \A p \in PThreads : (ppc[p] = "t_lock") ~> (ppc[p] = "t_check")
    /\ (cbpc = "c_lock") ~> (cbpc = "c_check")

\* a caller owns the lock for tristesse while the clip of joie, handed over
\* by an earlier call that has returned, has not ended
C24_Witness ==
    \E p \in PThreads :
        /\ lock_owner = p
        /\ ppc[p] = "t_setmode"
        /\ parg[p] = "tristesse"
        /\ current_mode = "joie"
        /\ playing = [clip |-> "joie", loop |-> FALSE]
        /\ ~ended
        /\ pending_ends = 0 /\ cbpc = "idle"


\* C27: outside the critical section current_mode is a key of the media map
\* and names the clip of the most recent play command: current_mode = idle
\* exactly when that command was a looped play of the idle clip, and
\* current_mode = X exactly when it was a play-once of the clip of X.
C27_ModeNamesLastPlay ==
    (phase = "ready" /\ lock_owner = NoOne) =>
        /\ current_mode \in DOMAIN media_map
        /\ playing.clip = current_mode
        /\ (current_mode = idle_name) <=> (playing = IdleLooped)
        /\ \A x \in DOMAIN media_map \ {idle_name} :
              (current_mode = x) <=> (playing = [clip |-> x, loop |-> FALSE])

\* an emotion configured as looping has been triggered and its call has
\* returned
C27_Witness ==
    /\ phase = "ready" /\ lock_owner = NoOne
    /\ config.emotions["joie"].loop
    /\ current_mode = "joie"
    /\ \A p \in PThreads : ppc[p] = "idle"
    /\ cbpc = "idle"


(***************************************************************************)
(* Finished notifications that come late                                   *)
(***************************************************************************)
\* the notification being handled is not about the clip now playing: that
\* clip was started after the notification was produced and has not ended
Stale == playing.clip # None /\ ~playing.loop /\ ~ended

\* C28: a finished notification is handled regardless of the playback that
\* produced it: the handler never leaves without playing, and when the
\* notification of an earlier clip arrives while a later clip plays, the
\* handler sets current_mode to idle and restarts the idle loop, cutting the
\* later clip short.
C28_StaleNotificationHandled ==
    [][/\ (cbpc = "c_check" /\ cbpc' # cbpc) => cbpc' = "c_idle_mode"
       /\ (cbpc = "c_idle_play" /\ Stale /\ cbpc' # cbpc) =>
              /\ current_mode' = idle_name
              /\ playing' = IdleLooped
              /\ cb_cmds' = cb_cmds + 1]_vars

\* the notification of joie is handled while tristesse, triggered since,
\* is playing
C28_Witness ==
    /\ cbpc = "c_idle_play"
    /\ cb_from = "tristesse"
    /\ playing = [clip |-> "tristesse", loop |-> FALSE]
    /\ Stale
    /\ pending_ends = 0
    /\ "joie" \in requested


\* C29: once stop() has been called the playback stays halted: while the
\* process lives, no step of trigger_emotion or of the finished handler
\* after the stop issues a play command or changes current_mode.
C29_StopIsFinal ==
    [][(stop_cmds > 0 /\ run_pc # "exited") =>
          (~PlayIssued /\ current_mode' = current_mode)]_vars


(***************************************************************************)
(* Properties of the console loop of the player                            *)
(***************************************************************************)
\* the run loop has been left
RunLeft == run_pc \in {"finally", "returned", "exited"}

\* C32: run applies the console commands one at a time in the order they
\* were read: lines are queued in reading order and taken from the head of
\* the queue; a blank line and "list" leave current_mode unchanged and issue
\* no playback command, every other line is passed to trigger_emotion, and
\* once quit / exit / q (in any case) has been taken, nothing queued behind
\* it is taken or applied.
C32_CommandsInOrder ==
    [][/\ (command_q' # command_q /\ run_pc' = run_pc) =>
              /\ stdin # <<>>
              /\ command_q' = Append(command_q, Head(stdin))
              /\ stdin' = Tail(stdin)
       /\ (run_pc = "get" /\ run_pc' = "dispatch") =>
              /\ run_cmd' = Head(command_q)
              /\ command_q' = Tail(command_q)
       /\ (run_pc = "dispatch" /\ run_pc' # "dispatch") =>
              IF run_cmd \in {"", "list"}
              THEN /\ run_pc' = "loop"
                   /\ UNCHANGED <<current_mode, playing, ppc, pcmds>>
              ELSE IF run_cmd \in {"quit", "exit", "q", "QUIT"}
              THEN /\ run_pc' = "finally"
                   /\ UNCHANGED <<current_mode, playing, ppc, pcmds>>
              ELSE /\ run_pc' = "trigger"
                   /\ ppc'[RunThread] = "t_lock"
                   /\ parg'[RunThread] = run_cmd
       /\ RunLeft =>
              /\ RunLeft'
              /\ run_cmd' = run_cmd
              /\ ppc'[RunThread] = ppc[RunThread]
              /\ Len(command_q') >= Len(command_q)]_vars

\* QUIT has been taken and run has returned; joie, queued behind it, is
\* still in the queue and nothing was ever triggered
C32_Witness ==
    /\ run_pc = "returned"
    /\ run_cmd = "QUIT"
    /\ command_q = <<"joie">>
    /\ stdin = <<>>
    /\ triggers = 0


(***************************************************************************)
(* Properties of the text session                                          *)
(***************************************************************************)
\* the positions of the CLI loop other than between the append to the
\* history and the write of the line
CliSettled == cli.pc \in {"start", "prompt", "generate", "quit", "crashed"}

\* C33: the history grows by exactly one {prompt, output} record per
\* completed generation and is otherwise unchanged: the commands :help,
\* :compact and unknown ":" commands add nothing and call no LLM; in the CLI
\* loop the history holds the records of the lines appended to the session
\* file (one more while the line of the last record is being written);
\* run_once leaves the history unchanged when it raises; a failed LLM call
\* still appends one record, which holds the fallback text for its prompt.
C33_HistoryOnePerGeneration ==
    /\ [](Len(history) = cli.llm_calls)
    /\ [](CliSettled => history = jsonl)
    /\ [](cli.pc = "save" =>
            /\ Len(history) = Len(jsonl) + 1
            /\ SubSeq(history, 1, Len(jsonl)) = jsonl)
    /\ [](\A i \in 1..Len(history) :
            /\ history[i].output.head # ""
            /\ history[i].output.head = "(fallback LLM OFF) " =>
                  history[i].output.of = history[i].prompt)
    /\ [][/\ history' # history =>
                /\ Len(history') = Len(history) + 1
                /\ SubSeq(history', 1, Len(history)) = history
                /\ cli'.llm_calls = cli.llm_calls + 1
          /\ ( /\ cli.pc = "prompt" /\ cli.stdin # <<>>
               /\ Head(cli.stdin) \in {":help", ":compact", ":zz"} ) =>
                /\ UNCHANGED <<history, jsonl>>
                /\ cli'.llm_calls = cli.llm_calls
                /\ cli'.pc = "prompt"
          /\ cli'.pc \in {"raised", "crashed"} => history' = history]_vars

\* the CLI has taken a command and made one generation whose LLM call
\* failed: the record with the fallback text is in the history and in the
\* file
C33_Witness ==
    /\ cli.pc = "prompt"
    /\ cli.compact
    /\ Len(history) = 1
    /\ history[1].output.head = "(fallback LLM OFF) "
    /\ history[1].prompt.two_sentences
    /\ jsonl = history
====
